---- MODULE Spec2Model ----
(***************************************************************************)
(* A model of GLS (binary1248/GLS): the RAII name wrapper gls::object      *)
(* (include/gls/objects/object.hpp) with the debug error check             *)
(* (include/gls/errorcheck.hpp), and the lazy camera gls::camera           *)
(* (include/gls/utilities/camera.hpp).                                     *)
(*                                                                         *)
(* Specifications:                                                         *)
(*   Spec         gls::object handles in the debug build; the Generator    *)
(*                honours the glGen* contract (it writes one unused,       *)
(*                non-zero name).                                          *)
(*   SpecGenFail  the same handles, and the Generator may also fail: it    *)
(*                raises a GL error and writes nothing.                    *)
(*   SpecCamera   one gls::camera<T>, T read as exact rational arithmetic. *)
(***************************************************************************)
EXTENDS Integers, Sequences, FiniteSets, Bags, TLC

(***************************************************************************)
(* Bounds of the model.                                                    *)
(***************************************************************************)
\* gls::object instances a behaviour may construct
MaxHandles == 3
\* names the Generator may hand out: 1..MaxName (0 is the GL's "no object")
MaxName == 2

\* member functions called on the camera in one behaviour
MaxCamOps == 3

\* renderbuffer objects constructed in one behaviour
MaxRenderbuffers == 2

\* buffer names glGenBuffers hands out in one behaviour
MaxBufferNames == 4

\* member functions called on the buffers in one behaviour
MaxBufferOps == 3

\* sync objects constructed in one behaviour
MaxSyncs == 2

\* fences glFenceSync creates in one behaviour
MaxFences == 3

\* member functions called on the queries in one behaviour
MaxQueryOps == 4

Handles == 1..MaxHandles
Names == 1..MaxName

VARIABLES
  lifetime,      \* per handle: "unborn", "live" (constructed) or "dead" (destroyed)
  m_name,        \* per handle: object::m_name
  gen_calls,     \* the calls of Generator so far, a bag of [n, wrote]; wrote = 0: nothing written
  del_calls,     \* the calls of Deleter so far, a bag of [n, name]
  gl_error,      \* the GL's error flag, as glGetError would return it
  error_stream,  \* what do_check_gl_error has written to GLS_ERROR_STREAM
  ndebug,        \* whether the build defines NDEBUG
  born,          \* history, per handle: how it was constructed and what happened to it
  obj_op         \* history: the last operation on a handle

objVars == <<lifetime, m_name, gen_calls, del_calls, gl_error, error_stream,
             ndebug, born, obj_op>>

VARIABLES
  m_projection,        \* camera::m_projection (mutable cache)
  m_view,              \* camera::m_view (mutable cache)
  m_matrix,            \* camera::m_matrix (mutable cache)
  m_position,          \* camera::m_position
  m_direction,         \* camera::m_direction
  m_up,                \* camera::m_up
  m_fov,               \* camera::m_fov, an angle
  m_aspect,            \* camera::m_aspect
  m_near,              \* camera::m_near
  m_far,               \* camera::m_far
  m_projection_dirty,  \* camera::m_projection_dirty
  m_view_dirty,        \* camera::m_view_dirty
  m_matrix_dirty,      \* camera::m_matrix_dirty
  cam_ops,             \* history: how many member functions have been called
  cam_op,              \* history: the last call, [op, angles, values]
  cam_prev,            \* history: the name of the call before the last
  cam_ret,             \* history: the matrix the last call returned (<<>>: it returned none)
  cam_recomputed       \* history: the blocks of update() the last call executed

projectionParams == <<m_fov, m_aspect, m_near, m_far>>
viewParams == <<m_position, m_direction, m_up>>
caches == <<m_projection, m_view, m_matrix>>
dirtyFlags == <<m_projection_dirty, m_view_dirty, m_matrix_dirty>>
camHistory == <<cam_ops, cam_op, cam_prev, cam_ret, cam_recomputed>>

camVars == <<projectionParams, viewParams, caches, dirtyFlags, camHistory>>

VARIABLES
  rb_lifetime,      \* per renderbuffer: "unborn", "live" (constructed) or "dead" (destroyed)
  rb_object,        \* per renderbuffer: the name held by renderbuffer::m_object
  m_width,          \* per renderbuffer: renderbuffer::m_width
  m_height,         \* per renderbuffer: renderbuffer::m_height
  fb_lifetime,      \* the framebuffer: "live" or "dead"
  m_renderbuffers,  \* framebuffer::m_renderbuffers, attachment -> [name, m_width, m_height]
  gl_storage,       \* the GL: renderbuffer name -> <<width, height>> of its storage
  gl_attachment,    \* the GL: attachment -> renderbuffer name attached to the framebuffer (0: none)
  rb_deletes,       \* history: renderbuffer name -> the operations that called glDeleteRenderbuffers on it
  fb_attached,      \* history: attachment -> the name last passed to glFramebufferRenderbuffer
  fb_op             \* history: the last operation, [op, rb, attachment, ret]

fbVars == <<rb_lifetime, rb_object, m_width, m_height, fb_lifetime, m_renderbuffers,
            gl_storage, gl_attachment, rb_deletes, fb_attached, fb_op>>

VARIABLES
  buf_object,       \* per buffer: the name held by buffer::m_object
  m_size,           \* per buffer: buffer::m_size
  gl_buffer_data,   \* the GL: buffer name -> the bytes of its data store
  gl_buffer_deletes,\* history: buffer name -> how many times glDeleteBuffers was called on it
  assert_failed,    \* the expression of the assert that aborted the program ("": none)
  buf_op            \* history: the last call, the buffer as it was before it, the calls so far

bufVars == <<buf_object, m_size, gl_buffer_data, gl_buffer_deletes, assert_failed, buf_op>>

VARIABLES
  sync_lifetime,    \* per sync: "unborn", "live" or "dead"
  m_sync,           \* per sync: sync::m_sync, a fence or 0
  gl_fence,         \* the GL: fence -> "none" (not created), "unsignaled", "signaled" or "deleted"
  sync_deletes,     \* history: fence -> the operations that passed it to glDeleteSync
  sync_op           \* history: the last operation, [op, self, other, ret]

syncVars == <<sync_lifetime, m_sync, gl_fence, sync_deletes, sync_op>>

VARIABLES
  m_waiting,        \* per query: query::m_waiting
  gl_query,         \* the GL: query -> "unused", "active", "ended" or "available"
  query_stack,      \* the run() and callable frames that have not returned, innermost last
  gl_query_calls,   \* history: the glBeginQuery, callable and glEndQuery calls, [call, query, error]
  query_op          \* history: the last call or return, [op, query, ret, calls, manual]

queryVars == <<m_waiting, gl_query, query_stack, gl_query_calls, query_op>>

\* the variables of the other components, which the handle operations leave alone
nonObjVars == <<camVars, fbVars, bufVars, syncVars, queryVars>>

\* the variables of the other components, which the camera operations leave alone
nonCamVars == <<objVars, fbVars, bufVars, syncVars, queryVars>>

\* the variables of the other components, which the renderbuffer and
\* framebuffer operations leave alone
nonFbVars == <<objVars, camVars, bufVars, syncVars, queryVars>>

\* the variables of the other components, which the buffer operations leave alone
nonBufVars == <<objVars, camVars, fbVars, syncVars, queryVars>>

\* the variables of the other components, which the sync operations leave alone
nonSyncVars == <<objVars, camVars, fbVars, bufVars, queryVars>>

\* the variables of the other components, which the query operations leave alone
nonQueryVars == <<objVars, camVars, fbVars, bufVars, syncVars>>

vars == <<objVars, camVars, fbVars, bufVars, syncVars, queryVars>>

(***************************************************************************)
(* errorcheck.hpp                                                          *)
(***************************************************************************)
\* GLenum error codes (the GL's values of the names the switch uses)
GL_NO_ERROR == 0
GL_INVALID_ENUM == 1280
GL_INVALID_VALUE == 1281
GL_INVALID_OPERATION == 1282
GL_OUT_OF_MEMORY == 1285
\* a GL error code the switch does not name (GL_INVALID_FRAMEBUFFER_OPERATION)
GL_UNNAMED_ERROR == 1286

\* the errors a failing Generator raises in the model
GeneratorErrors == {GL_OUT_OF_MEMORY, GL_UNNAMED_ERROR}

HexDigits == <<"0", "1", "2", "3", "4", "5", "6", "7", "8", "9",
               "a", "b", "c", "d", "e", "f">>

\* std::setw(4) << std::setfill('0') << std::hex << error, for error < 0x10000
hex4(error) ==
  HexDigits[((error \div 4096) % 16) + 1] \o HexDigits[((error \div 256) % 16) + 1]
    \o HexDigits[((error \div 16) % 16) + 1] \o HexDigits[(error % 16) + 1]

\* the text the switch of do_check_gl_error prints for an error code
error_text(error) ==
  CASE error = GL_INVALID_ENUM -> "GL_INVALID_ENUM"
    [] error = GL_INVALID_VALUE -> "GL_INVALID_VALUE"
    [] error = GL_INVALID_OPERATION -> "GL_INVALID_OPERATION"
    [] error = GL_OUT_OF_MEMORY -> "GL_OUT_OF_MEMORY"
    [] OTHER -> "0x" \o hex4(error)

\* The GL records an error only while no earlier one is pending.
gl_raise(flag, error) ==
  IF flag = GL_NO_ERROR THEN error ELSE flag

\* do_check_gl_error( file, line, call ): glGetError() returns the flag and
\* clears it; an error is reported to the stream.
do_check_gl_error(flag, stream, call) ==
  [ gl_error |-> GL_NO_ERROR,
    error_stream |-> IF flag # GL_NO_ERROR
                     THEN Append(stream, [call |-> call, error |-> error_text(flag)])
                     ELSE stream ]

\* check_gl_error( call ): the state after `call` left the flag `flag`.
\* With NDEBUG the macro is the call alone.
check_gl_error(nd, flag, stream, call) ==
  IF nd
  THEN [gl_error |-> flag, error_stream |-> stream]
  ELSE do_check_gl_error(flag, stream, call)

(***************************************************************************)
(* camera.hpp: value_type.  The template parameter T (float, double) is    *)
(* read as exact arithmetic on rationals <<numerator, denominator>> in     *)
(* lowest terms with a positive denominator; rounding is not modelled.     *)
(* A division by zero and a square root that is not rational have no value *)
(* here: the operators are undefined on them.                              *)
(***************************************************************************)
Abs(i) == IF i < 0 THEN -i ELSE i

RECURSIVE GCD(_, _)
GCD(a, b) == IF b = 0 THEN a ELSE GCD(b, a % b)

\* the rational n/d in lowest terms
Reduced(n, d, g) == <<n \div g, d \div g>>

Rat(n, d) ==
  CASE d > 0 -> Reduced(n, d, GCD(Abs(n), d))
    [] d < 0 -> Reduced(-n, -d, GCD(Abs(n), -d))

\* an integer literal as a value_type
Num(i) == <<i, 1>>

\* x + y, x - y, x * y, x / y and -x on value_type
PlusOver(x, y, g) == Rat(x[1] * (y[2] \div g) + y[1] * (x[2] \div g), (x[2] \div g) * y[2])
Plus(x, y) == IF x[1] = 0 THEN y ELSE IF y[1] = 0 THEN x
              ELSE PlusOver(x, y, GCD(x[2], y[2]))
Neg(x) == <<-x[1], x[2]>>
Minus(x, y) == Plus(x, Neg(y))
Times(x, y) == IF x[1] = 0 \/ y[1] = 0 THEN <<0, 1>>
               ELSE Rat(x[1] * y[1], x[2] * y[2])
Over(x, y) == Rat(x[1] * y[2], x[2] * y[1])

\* the square root of a perfect square
ISqrt(n) == CHOOSE r \in 0..n : r * r = n

\* std::sqrt on the rationals whose root is rational
std_sqrt(x) == <<ISqrt(x[1]), ISqrt(x[2])>>

(***************************************************************************)
(* Angles.  An angle in radians is a name; std::sin( a / 2 ),              *)
(* std::cos( a / 2 ) and std::tan( a / 2 ) are tabulated for the angles    *)
(* where they are rational (pi is read as the exact value).                *)
(***************************************************************************)
\* camera::pi * 90 / 180, the default m_fov
HalfPi == "pi/2"

\* -a
angle_negate(a) ==
  CASE a = "0" -> "0"
    [] a = "pi" -> "-pi"
    [] a = "-pi" -> "pi"

\* std::sin( a / 2 )
std_sin_half(a) ==
  CASE a = "0" -> Num(0)
    [] a = "pi" -> Num(1)
    [] a = "-pi" -> Num(-1)

\* std::cos( a / 2 )
std_cos_half(a) ==
  CASE a = "0" -> Num(1)
    [] a = "pi" -> Num(0)
    [] a = "-pi" -> Num(0)

\* std::tan( a / 2 )
std_tan_half(a) ==
  CASE a = "pi/2" -> Num(1)
    [] a = "2atan(1/2)" -> Rat(1, 2)
    [] a = "2atan(2)" -> Num(2)

(***************************************************************************)
(* camera.hpp: the private vector, quaternion and matrix helpers.          *)
(* vector_type, quaternion_type and matrix_type are tuples indexed from 1  *)
(* (the source's element i is element i + 1 here).                         *)
(***************************************************************************)
\* a tuple of integers as a tuple of value_type
Vec(t) == [i \in DOMAIN t |-> Num(t[i])]

vector_length(v) ==
  std_sqrt(Plus(Plus(Times(v[1], v[1]), Times(v[2], v[2])), Times(v[3], v[3])))

\* v[i] / length
vector_over(v, length) == <<Over(v[1], length), Over(v[2], length), Over(v[3], length)>>

vector_normalize(v) == vector_over(v, vector_length(v))

vector_dot(v, w) ==
  Plus(Plus(Times(v[1], w[1]), Times(v[2], w[2])), Times(v[3], w[3]))

vector_cross(v, w) ==
  << Minus(Times(v[2], w[3]), Times(v[3], w[2])),
     Minus(Times(v[3], w[1]), Times(v[1], w[3])),
     Minus(Times(v[1], w[2]), Times(v[2], w[1])) >>

quaternion_length(q) ==
  std_sqrt(Plus(Plus(Plus(Times(q[1], q[1]), Times(q[2], q[2])), Times(q[3], q[3])),
                Times(q[4], q[4])))

\* q[i] / length
quaternion_over(q, length) ==
  <<Over(q[1], length), Over(q[2], length), Over(q[3], length), Over(q[4], length)>>

quaternion_normalize(q) == quaternion_over(q, quaternion_length(q))

quaternion_conjugate(q) == <<Neg(q[1]), Neg(q[2]), Neg(q[3]), q[4]>>

quaternion_multiply(q, r) ==
  << Minus(Plus(Plus(Times(q[1], r[4]), Times(q[4], r[1])), Times(q[2], r[3])), Times(q[3], r[2])),
     Minus(Plus(Plus(Times(q[2], r[4]), Times(q[4], r[2])), Times(q[3], r[1])), Times(q[1], r[3])),
     Minus(Plus(Plus(Times(q[3], r[4]), Times(q[4], r[3])), Times(q[1], r[2])), Times(q[2], r[1])),
     Minus(Minus(Minus(Times(q[4], r[4]), Times(q[1], r[1])), Times(q[2], r[2])), Times(q[3], r[3])) >>

\* m[row]*n[4col] + m[row+4]*n[4col+1] + m[row+8]*n[4col+2] + m[row+12]*n[4col+3]
\* (the tuples here are indexed from 1)
matrix_mult_element(m, n, row, col) ==
  Plus(Plus(Plus(Times(m[row + 1], n[4 * col + 1]),
                 Times(m[row + 5], n[4 * col + 2])),
            Times(m[row + 9], n[4 * col + 3])),
       Times(m[row + 13], n[4 * col + 4]))

\* matrix_mult( m, n ): element k (from 0) of the result is
\* matrix_mult_element at row k mod 4 and column k div 4, as the sixteen lines
\* of the source spell out.
matrix_mult(m, n) ==
  [k \in 1..16 |-> matrix_mult_element(m, n, (k - 1) % 4, (k - 1) \div 4)]

(***************************************************************************)
(* object.hpp                                                              *)
(***************************************************************************)
\* object::name()
name(h) == m_name[h]

Live == {h \in Handles : lifetime[h] = "live"}

\* the names the Generator has written so far
Generated == {c.wrote : c \in BagToSet(gen_calls)} \ {0}

\* The Generator template parameter when it succeeds, as glGen*( 1, &name )
\* does: it writes one non-zero name that it has not handed out before and
\* raises no error.
GeneratorSucceeds ==
  {[wrote |-> x, error |-> GL_NO_ERROR] : x \in Names \ Generated}

\* The Generator when it fails: a GL command that raises an error has no
\* effect, so nothing is written through the pointer.
GeneratorFails ==
  {[wrote |-> 0, error |-> e] : e \in GeneratorErrors}

NoHistory == [how |-> "none", got |-> 0, moved |-> FALSE, failed |-> FALSE]

\* object::object(): Generator( 1, &m_name ) under check_gl_error. m_name has
\* no initialiser: when the Generator writes nothing its value is indeterminate.
object_ctor(h, gen) ==
  /\ lifetime[h] = "unborn"
  /\ \E v \in (IF gen.wrote # 0 THEN {gen.wrote} ELSE 0..MaxName) :
       /\ m_name' = [m_name EXCEPT ![h] = v]
       /\ born' = [born EXCEPT ![h] = [how |-> "default", got |-> v,
                                       moved |-> FALSE, failed |-> gen.wrote = 0]]
  /\ lifetime' = [lifetime EXCEPT ![h] = "live"]
  /\ gen_calls' = gen_calls (+) SetToBag({[n |-> 1, wrote |-> gen.wrote]})
  /\ LET chk == check_gl_error(ndebug, gl_raise(gl_error, gen.error), error_stream,
                               "Generator( 1, &m_name )")
     IN  /\ gl_error' = chk.gl_error
         /\ error_stream' = chk.error_stream
  /\ obj_op' = [op |-> "construct", self |-> h, other |-> h, self_was |-> 0, other_was |-> 0]
  /\ UNCHANGED <<del_calls, ndebug>>
  /\ UNCHANGED nonObjVars

\* A plausible bug: the destructor never calls the Deleter.
object_dtor_leaks(h) ==
  /\ lifetime[h] = "live"
  /\ lifetime' = [lifetime EXCEPT ![h] = "dead"]
  /\ m_name' = [m_name EXCEPT ![h] = 0]
  /\ obj_op' = [op |-> "destruct", self |-> h, other |-> h, self_was |-> 0, other_was |-> 0]
  /\ UNCHANGED <<gen_calls, del_calls, gl_error, error_stream, ndebug, born>>
  /\ UNCHANGED nonObjVars

\* object::~object(): Deleter( 1, &m_name ) under check_gl_error. Deleting the
\* name 0 or an unused name raises no GL error.
object_dtor(h) ==
  /\ lifetime[h] = "live"
  /\ del_calls' = del_calls (+) SetToBag({[n |-> 1, name |-> m_name[h]]})
  /\ LET chk == check_gl_error(ndebug, gl_error, error_stream, "Deleter( 1, &m_name )")
     IN  /\ gl_error' = chk.gl_error
         /\ error_stream' = chk.error_stream
  /\ lifetime' = [lifetime EXCEPT ![h] = "dead"]
  /\ m_name' = [m_name EXCEPT ![h] = 0]
  /\ obj_op' = [op |-> "destruct", self |-> h, other |-> h, self_was |-> 0, other_was |-> 0]
  /\ UNCHANGED <<gen_calls, ndebug, born>>
  /\ UNCHANGED nonObjVars

\* A plausible bug: the move constructor copies the name and leaves the source's.
object_move_ctor_copies(h, other) ==
  /\ lifetime[h] = "unborn"
  /\ lifetime[other] = "live"
  /\ m_name' = [m_name EXCEPT ![h] = m_name[other]]
  /\ lifetime' = [lifetime EXCEPT ![h] = "live"]
  /\ born' = [born EXCEPT ![h] = [how |-> "move", got |-> m_name[other],
                                  moved |-> FALSE, failed |-> FALSE],
                          ![other].moved = TRUE]
  /\ obj_op' = [op |-> "move_construct", self |-> h, other |-> other,
                self_was |-> 0, other_was |-> m_name[other]]
  /\ UNCHANGED <<gen_calls, del_calls, gl_error, error_stream, ndebug>>
  /\ UNCHANGED nonObjVars

\* A plausible bug: the move constructor default-constructs its own name first
\* (no m_name( 0u )), so the swap hands the source a freshly generated name.
object_move_ctor_generates(h, other) ==
  /\ lifetime[h] = "unborn"
  /\ lifetime[other] = "live"
  /\ \E x \in Names \ Generated :
       /\ m_name' = [m_name EXCEPT ![h] = m_name[other], ![other] = x]
       /\ gen_calls' = gen_calls (+) SetToBag({[n |-> 1, wrote |-> x]})
  /\ lifetime' = [lifetime EXCEPT ![h] = "live"]
  /\ born' = [born EXCEPT ![h] = [how |-> "move", got |-> m_name[other],
                                  moved |-> FALSE, failed |-> FALSE],
                          ![other].moved = TRUE]
  /\ obj_op' = [op |-> "move_construct", self |-> h, other |-> other,
                self_was |-> 0, other_was |-> m_name[other]]
  /\ UNCHANGED <<del_calls, gl_error, error_stream, ndebug>>
  /\ UNCHANGED nonObjVars

\* object::object( object&& other ): m_name( 0u ), then std::swap( m_name, other.m_name ).
object_move_ctor(h, other) ==
  /\ lifetime[h] = "unborn"
  /\ lifetime[other] = "live"
  /\ m_name' = [m_name EXCEPT ![h] = m_name[other], ![other] = 0]
  /\ lifetime' = [lifetime EXCEPT ![h] = "live"]
  /\ born' = [born EXCEPT ![h] = [how |-> "move", got |-> m_name[other],
                                  moved |-> FALSE, failed |-> FALSE],
                          ![other].moved = TRUE]
  /\ obj_op' = [op |-> "move_construct", self |-> h, other |-> other,
                self_was |-> 0, other_was |-> m_name[other]]
  /\ UNCHANGED <<gen_calls, del_calls, gl_error, error_stream, ndebug>>
  /\ UNCHANGED nonObjVars

\* A plausible bug: move assignment written as "release mine, take yours".
object_move_assign_releases(h, other) ==
  /\ lifetime[h] = "live"
  /\ lifetime[other] = "live"
  /\ del_calls' = del_calls (+) SetToBag({[n |-> 1, name |-> m_name[h]]})
  /\ m_name' = [m_name EXCEPT ![other] = 0, ![h] = m_name[other]]
  /\ born' = [born EXCEPT ![h].moved = TRUE, ![other].moved = TRUE]
  /\ obj_op' = [op |-> "move_assign", self |-> h, other |-> other,
                self_was |-> m_name[h], other_was |-> m_name[other]]
  /\ UNCHANGED <<lifetime, gen_calls, gl_error, error_stream, ndebug>>
  /\ UNCHANGED nonObjVars

\* A plausible bug: move assignment written as a copy of the name.
object_move_assign_copies(h, other) ==
  /\ lifetime[h] = "live"
  /\ lifetime[other] = "live"
  /\ m_name' = [m_name EXCEPT ![h] = m_name[other]]
  /\ born' = [born EXCEPT ![h].moved = TRUE, ![other].moved = TRUE]
  /\ obj_op' = [op |-> "move_assign", self |-> h, other |-> other,
                self_was |-> m_name[h], other_was |-> m_name[other]]
  /\ UNCHANGED <<lifetime, gen_calls, del_calls, gl_error, error_stream, ndebug>>
  /\ UNCHANGED nonObjVars

\* A plausible bug: move assignment takes the name and zeroes the source,
\* dropping the name it held.
object_move_assign_takes(h, other) ==
  /\ lifetime[h] = "live"
  /\ lifetime[other] = "live"
  /\ m_name' = [m_name EXCEPT ![other] = 0, ![h] = m_name[other]]
  /\ born' = [born EXCEPT ![h].moved = TRUE, ![other].moved = TRUE]
  /\ obj_op' = [op |-> "move_assign", self |-> h, other |-> other,
                self_was |-> m_name[h], other_was |-> m_name[other]]
  /\ UNCHANGED <<lifetime, gen_calls, del_calls, gl_error, error_stream, ndebug>>
  /\ UNCHANGED nonObjVars

\* object::operator=( object&& other ): std::swap( m_name, other.m_name ).
\* h = other is the self-assignment, which swaps m_name with itself.
object_move_assign(h, other) ==
  /\ lifetime[h] = "live"
  /\ lifetime[other] = "live"
  /\ m_name' = [m_name EXCEPT ![h] = m_name[other], ![other] = m_name[h]]
  /\ born' = [born EXCEPT ![h].moved = TRUE, ![other].moved = TRUE]
  /\ obj_op' = [op |-> "move_assign", self |-> h, other |-> other,
                self_was |-> m_name[h], other_was |-> m_name[other]]
  /\ UNCHANGED <<lifetime, gen_calls, del_calls, gl_error, error_stream, ndebug>>
  /\ UNCHANGED nonObjVars

(***************************************************************************)
(* camera.hpp: the camera.                                                 *)
(***************************************************************************)
Zero3 == Vec(<<0, 0, 0>>)

\* m_projection, m_view and m_matrix have no initialiser: until update()
\* assigns them they hold whatever the storage held.
IndeterminateMatrices ==
  { [k \in 1..16 |-> Num(0)], [k \in 1..16 |-> Num(7)] }

\* the arguments the model calls the member functions with
FovInputs == {HalfPi, "2atan(1/2)"}
AspectInputs == {Num(1), Num(2)}
NearInputs == {Num(1), Num(2)}
FarInputs == {Num(1000), Num(10)}
PositionInputs == {Vec(<<0, 0, 0>>), Vec(<<1, 2, 3>>)}
DirectionInputs == {Vec(<<0, 0, -2>>), Vec(<<3, 0, -4>>)}
UpInputs == {Vec(<<0, 3, 0>>), Vec(<<0, 0, 1>>)}
MoveInputs == {Vec(<<0, 0, 0>>), Vec(<<1, 0, 0>>)}
MoveRelativeInputs == {Vec(<<1, 0, 0>>), Vec(<<0, 2, 3>>)}
\* unit quaternions: the identity, and the half turn about the y axis
RotationInputs == {Vec(<<0, 0, 0, 1>>), Vec(<<0, 1, 0, 0>>)}
\* <<axis, angle>>
AxisAngleInputs == {<<Vec(<<0, 1, 0>>), "0">>, <<Vec(<<1, 0, 0>>), "pi">>}
\* <<yaw, pitch, roll>>
TaitBryanInputs == {<<"0", "0", "0">>, <<"pi", "0", "0">>, <<"0", "pi", "pi">>}
\* camera( fov, aspect, near_distance, far_distance )
ProjectionCtorInputs == {<<HalfPi, Num(1), Rat(1, 10), Num(100)>>}
\* camera( fov, aspect, near_distance, far_distance, position, direction, up )
FullCtorInputs ==
  {<<"2atan(1/2)", Num(2), Num(1), Num(10), Vec(<<1, 2, 3>>), Vec(<<3, 0, -4>>), Vec(<<0, 2, 0>>)>>}

\* the projection matrix update() builds from the projection parameters
projection_matrix(fov, aspect, near, far) ==
  << Over(Num(1), Times(aspect, std_tan_half(fov))), Num(0), Num(0), Num(0),
     Num(0), Over(Num(1), std_tan_half(fov)), Num(0), Num(0),
     Num(0), Num(0), Over(Neg(Plus(far, near)), Minus(far, near)), Num(-1),
     Num(0), Num(0), Over(Neg(Times(Times(Num(2), far), near)), Minus(far, near)), Num(0) >>

\* the view matrix update() builds from the view parameters
view_basis(s, u, d) ==
  << s[1], u[1], Neg(d[1]), Num(0),
     s[2], u[2], Neg(d[2]), Num(0),
     s[3], u[3], Neg(d[3]), Num(0),
     Num(0), Num(0), Num(0), Num(1) >>

view_translation(position) ==
  << Num(1), Num(0), Num(0), Num(0),
     Num(0), Num(1), Num(0), Num(0),
     Num(0), Num(0), Num(1), Num(0),
     Neg(position[1]), Neg(position[2]), Neg(position[3]), Num(1) >>

\* the view matrix, given s = normalize( cross( d, up ) ): u is cross( s, d )
view_matrix_from(position, d, s) ==
  matrix_mult(view_basis(s, vector_cross(s, d), d), view_translation(position))

view_matrix(position, direction, up) ==
  view_matrix_from(position, direction, vector_normalize(vector_cross(direction, up)))

\* update() and move_relative() divide by the length of cross( m_direction, m_up ):
\* they have a value only while the two vectors are not parallel.
Oriented == vector_cross(m_direction, m_up) # Zero3

\* The members after update(), and the blocks it executed.
\* A plausible bug: the product of the view and the projection, in that order.
updated_from_view_first(projection, view) ==
  [ m_projection |-> projection,
    m_view |-> view,
    m_matrix |-> IF m_matrix_dirty THEN matrix_mult(view, projection) ELSE m_matrix,
    recomputed |-> [projection |-> m_projection_dirty, view |-> m_view_dirty,
                    matrix |-> m_matrix_dirty] ]

updated_from(projection, view) ==
  [ m_projection |-> projection,
    m_view |-> view,
    m_matrix |-> IF m_matrix_dirty THEN matrix_mult(projection, view) ELSE m_matrix,
    recomputed |-> [projection |-> m_projection_dirty, view |-> m_view_dirty,
                    matrix |-> m_matrix_dirty] ]

\* A plausible bug: update() without its three tests, every block executed.
updated_all(projection, view) ==
  [ m_projection |-> projection,
    m_view |-> view,
    m_matrix |-> matrix_mult(projection, view),
    recomputed |-> [projection |-> TRUE, view |-> TRUE, matrix |-> TRUE] ]

updated_eagerly ==
  updated_all(projection_matrix(m_fov, m_aspect, m_near, m_far),
              view_matrix(m_position, m_direction, m_up))

\* A plausible bug: one flag for everything, update() executes its three
\* blocks if m_matrix_dirty is set and none otherwise.
updated_on_matrix_dirty ==
  IF m_matrix_dirty
  THEN updated_eagerly
  ELSE [ m_projection |-> m_projection, m_view |-> m_view, m_matrix |-> m_matrix,
         recomputed |-> [projection |-> FALSE, view |-> FALSE, matrix |-> FALSE] ]

updated ==
  updated_from(IF m_projection_dirty
               THEN projection_matrix(m_fov, m_aspect, m_near, m_far)
               ELSE m_projection,
               IF m_view_dirty
               THEN view_matrix(m_position, m_direction, m_up)
               ELSE m_view)

\* update() const
update ==
  /\ m_view_dirty => Oriented
  /\ \E after \in {updated} :
       /\ m_projection' = after.m_projection
       /\ m_view' = after.m_view
       /\ m_matrix' = after.m_matrix
       /\ cam_recomputed' = after.recomputed
  /\ m_projection_dirty' = FALSE
  /\ m_view_dirty' = FALSE
  /\ m_matrix_dirty' = FALSE
  /\ UNCHANGED <<projectionParams, viewParams>>

NothingRecomputed == [projection |-> FALSE, view |-> FALSE, matrix |-> FALSE]

\* a call of a member function: the history, and the other components
Call(op, angles, values) ==
  /\ cam_ops < MaxCamOps
  /\ cam_ops' = cam_ops + 1
  /\ cam_op' = [op |-> op, angles |-> angles, values |-> values]
  /\ cam_prev' = cam_op.op
  /\ UNCHANGED nonCamVars

\* a member function that returns no matrix and does not call update()
Void ==
  /\ cam_ret' = <<>>
  /\ cam_recomputed' = NothingRecomputed

\* A plausible bug: set_fov without the test for equality.
set_fov_always(fov) ==
  /\ m_fov' = fov
  /\ m_projection_dirty' = TRUE
  /\ m_matrix_dirty' = TRUE
  /\ UNCHANGED <<m_aspect, m_near, m_far, viewParams, caches, m_view_dirty>>

set_fov(fov) ==
  /\ IF m_fov = fov
     THEN UNCHANGED <<m_fov, m_projection_dirty, m_matrix_dirty>>
     ELSE /\ m_fov' = fov
          /\ m_projection_dirty' = TRUE
          /\ m_matrix_dirty' = TRUE
  /\ UNCHANGED <<m_aspect, m_near, m_far, viewParams, caches, m_view_dirty>>

\* A plausible bug: set_aspect marks the projection and forgets the product.
set_aspect_keeps_matrix(aspect) ==
  /\ IF m_aspect = aspect
     THEN UNCHANGED <<m_aspect, m_projection_dirty>>
     ELSE /\ m_aspect' = aspect
          /\ m_projection_dirty' = TRUE
  /\ UNCHANGED <<m_fov, m_near, m_far, viewParams, caches, m_view_dirty, m_matrix_dirty>>

set_aspect(aspect) ==
  /\ IF m_aspect = aspect
     THEN UNCHANGED <<m_aspect, m_projection_dirty, m_matrix_dirty>>
     ELSE /\ m_aspect' = aspect
          /\ m_projection_dirty' = TRUE
          /\ m_matrix_dirty' = TRUE
  /\ UNCHANGED <<m_fov, m_near, m_far, viewParams, caches, m_view_dirty>>

set_near_distance(near_distance) ==
  /\ IF m_near = near_distance
     THEN UNCHANGED <<m_near, m_projection_dirty, m_matrix_dirty>>
     ELSE /\ m_near' = near_distance
          /\ m_projection_dirty' = TRUE
          /\ m_matrix_dirty' = TRUE
  /\ UNCHANGED <<m_fov, m_aspect, m_far, viewParams, caches, m_view_dirty>>

\* A plausible bug: set_far_distance without the test for equality.
set_far_distance_always(far_distance) ==
  /\ m_far' = far_distance
  /\ m_projection_dirty' = TRUE
  /\ m_matrix_dirty' = TRUE
  /\ UNCHANGED <<m_fov, m_aspect, m_near, viewParams, caches, m_view_dirty>>

set_far_distance(far_distance) ==
  /\ IF m_far = far_distance
     THEN UNCHANGED <<m_far, m_projection_dirty, m_matrix_dirty>>
     ELSE /\ m_far' = far_distance
          /\ m_projection_dirty' = TRUE
          /\ m_matrix_dirty' = TRUE
  /\ UNCHANGED <<m_fov, m_aspect, m_near, viewParams, caches, m_view_dirty>>

\* A plausible bug: set_position forgets m_matrix_dirty.
set_position_keeps_matrix(position) ==
  /\ IF m_position = position
     THEN UNCHANGED <<m_position, m_view_dirty, m_matrix_dirty>>
     ELSE /\ m_position' = position
          /\ m_view_dirty' = TRUE
          /\ UNCHANGED m_matrix_dirty
  /\ UNCHANGED <<m_direction, m_up, projectionParams, caches, m_projection_dirty>>

set_position(position) ==
  /\ IF m_position = position
     THEN UNCHANGED <<m_position, m_view_dirty, m_matrix_dirty>>
     ELSE /\ m_position' = position
          /\ m_view_dirty' = TRUE
          /\ m_matrix_dirty' = TRUE
  /\ UNCHANGED <<m_direction, m_up, projectionParams, caches, m_projection_dirty>>

\* A plausible bug: set_direction stores its argument as it is.
set_direction_as_given(direction) ==
  /\ IF m_direction = direction
     THEN UNCHANGED <<m_direction, m_view_dirty, m_matrix_dirty>>
     ELSE /\ m_direction' = direction
          /\ m_view_dirty' = TRUE
          /\ m_matrix_dirty' = TRUE
  /\ UNCHANGED <<m_position, m_up, projectionParams, caches, m_projection_dirty>>

set_direction(direction) ==
  LET new_direction == vector_normalize(direction)
  IN  /\ IF m_direction = new_direction
         THEN UNCHANGED <<m_direction, m_view_dirty, m_matrix_dirty>>
         ELSE /\ m_direction' = new_direction
              /\ m_view_dirty' = TRUE
              /\ m_matrix_dirty' = TRUE
      /\ UNCHANGED <<m_position, m_up, projectionParams, caches, m_projection_dirty>>

\* A plausible bug: set_up compares the argument, not the normalised argument,
\* with the stored vector.
set_up_compares_given(up) ==
  /\ IF m_up = up
     THEN UNCHANGED <<m_up, m_view_dirty, m_matrix_dirty>>
     ELSE /\ m_up' = vector_normalize(up)
          /\ m_view_dirty' = TRUE
          /\ m_matrix_dirty' = TRUE
  /\ UNCHANGED <<m_position, m_direction, projectionParams, caches, m_projection_dirty>>

\* A plausible bug: one flag for everything, set_up marks the projection too.
set_up_marks_all(up) ==
  /\ \E new_up \in {vector_normalize(up)} :
       IF m_up = new_up
       THEN UNCHANGED <<m_up, dirtyFlags>>
       ELSE /\ m_up' = new_up
            /\ m_projection_dirty' = TRUE
            /\ m_view_dirty' = TRUE
            /\ m_matrix_dirty' = TRUE
  /\ UNCHANGED <<m_position, m_direction, projectionParams, caches>>

set_up(up) ==
  LET new_up == vector_normalize(up)
  IN  /\ IF m_up = new_up
         THEN UNCHANGED <<m_up, m_view_dirty, m_matrix_dirty>>
         ELSE /\ m_up' = new_up
              /\ m_view_dirty' = TRUE
              /\ m_matrix_dirty' = TRUE
      /\ UNCHANGED <<m_position, m_direction, projectionParams, caches, m_projection_dirty>>

\* A plausible bug: move adds the offset in place and marks the view.
move_in_place(offset) ==
  /\ m_position' = << Plus(m_position[1], offset[1]), Plus(m_position[2], offset[2]),
                      Plus(m_position[3], offset[3]) >>
  /\ m_view_dirty' = TRUE
  /\ m_matrix_dirty' = TRUE
  /\ UNCHANGED <<m_direction, m_up, projectionParams, caches, m_projection_dirty>>

move(offset) ==
  set_position(<< Plus(m_position[1], offset[1]), Plus(m_position[2], offset[2]),
                  Plus(m_position[3], offset[3]) >>)

move_relative(offset) ==
  /\ Oriented
  /\ \E right_vector \in {vector_normalize(vector_cross(m_direction, m_up))} :
       move(<< Plus(Times(Neg(m_direction[1]), offset[3]),
                    Minus(Times(m_up[1], offset[2]), Times(right_vector[1], offset[1]))),
               Plus(Times(Neg(m_direction[2]), offset[3]),
                    Minus(Times(m_up[2], offset[2]), Times(right_vector[2], offset[1]))),
               Plus(Times(Neg(m_direction[3]), offset[3]),
                    Minus(Times(m_up[3], offset[2]), Times(right_vector[3], offset[1]))) >>)

\* quaternion_type{ v[0], v[1], v[2], 0 }
quaternion_of(v) == <<v[1], v[2], v[3], Num(0)>>

\* vector_type{ q[0], q[1], q[2] }
vector_of(q) == <<q[1], q[2], q[3]>>

\* quaternion_multiply( quaternion_multiply( rotation, q ), quaternion_conjugate( rotation ) )
rotated(rotation, q) ==
  quaternion_multiply(quaternion_multiply(rotation, q), quaternion_conjugate(rotation))

\* quaternion_type{ axis[0] * sin( angle / 2 ), ..., cos( angle / 2 ) }
axis_angle(axis, angle) ==
  << Times(axis[1], std_sin_half(angle)), Times(axis[2], std_sin_half(angle)),
     Times(axis[3], std_sin_half(angle)), std_cos_half(angle) >>

\* A plausible bug: rotate marks the view only if the rotation changed a vector.
rotate_if_changed(rotation) ==
  /\ \E direction \in {rotated(rotation, quaternion_of(m_direction))} :
       m_direction' = vector_normalize(vector_of(direction))
  /\ \E up \in {rotated(rotation, quaternion_of(m_up))} :
       m_up' = vector_normalize(vector_of(up))
  /\ IF m_direction' = m_direction /\ m_up' = m_up
     THEN UNCHANGED <<m_view_dirty, m_matrix_dirty>>
     ELSE m_view_dirty' = TRUE /\ m_matrix_dirty' = TRUE
  /\ UNCHANGED <<m_position, projectionParams, caches, m_projection_dirty>>

\* rotate( quaternion_type rotation )
rotate(rotation) ==
  /\ \E direction \in {rotated(rotation, quaternion_of(m_direction))} :
       m_direction' = vector_normalize(vector_of(direction))
  /\ \E up \in {rotated(rotation, quaternion_of(m_up))} :
       m_up' = vector_normalize(vector_of(up))
  /\ m_view_dirty' = TRUE
  /\ m_matrix_dirty' = TRUE
  /\ UNCHANGED <<m_position, projectionParams, caches, m_projection_dirty>>

\* rotate( vector_type axis, value_type angle )
rotate_axis_angle(axis, angle) ==
  \E rotation \in {axis_angle(axis, angle)} : rotate(rotation)

\* A plausible bug: the yaw is applied to the current direction.
set_orientation_taitbryan_relative(yaw, pitch, roll) ==
  \E yawed \in {quaternion_normalize(
                  rotated(axis_angle(Vec(<<0, 1, 0>>), angle_negate(yaw)),
                          quaternion_of(m_direction)))} :
  \E right \in {vector_normalize(vector_cross(Vec(<<0, 1, 0>>), vector_of(yawed)))} :
  \E direction \in {rotated(axis_angle(right, pitch), yawed)} :
  \E new_direction \in {vector_normalize(vector_of(direction))} :
  \E up_vector \in {vector_normalize(vector_cross(new_direction, right))} :
  \E up_quaternion \in {rotated(axis_angle(new_direction, roll), quaternion_of(up_vector))} :
    /\ m_direction' = new_direction
    /\ m_up' = vector_normalize(vector_of(up_quaternion))
    /\ m_view_dirty' = TRUE
    /\ m_matrix_dirty' = TRUE
    /\ UNCHANGED <<m_position, projectionParams, caches, m_projection_dirty>>

\* A plausible bug: the up vector taken as cross( right, m_direction ).
set_orientation_taitbryan_up_flipped(yaw, pitch, roll) ==
  \E yawed \in {quaternion_normalize(
                  rotated(axis_angle(Vec(<<0, 1, 0>>), angle_negate(yaw)),
                          Vec(<<0, 0, -1, 0>>)))} :
  \E right \in {vector_normalize(vector_cross(Vec(<<0, 1, 0>>), vector_of(yawed)))} :
  \E direction \in {rotated(axis_angle(right, pitch), yawed)} :
  \E new_direction \in {vector_normalize(vector_of(direction))} :
  \E up_vector \in {vector_normalize(vector_cross(right, new_direction))} :
  \E up_quaternion \in {rotated(axis_angle(new_direction, roll), quaternion_of(up_vector))} :
    /\ m_direction' = new_direction
    /\ m_up' = vector_normalize(vector_of(up_quaternion))
    /\ m_view_dirty' = TRUE
    /\ m_matrix_dirty' = TRUE
    /\ UNCHANGED <<m_position, projectionParams, caches, m_projection_dirty>>

set_orientation_taitbryan(yaw, pitch, roll) ==
  \E yawed \in {quaternion_normalize(
                  rotated(axis_angle(Vec(<<0, 1, 0>>), angle_negate(yaw)),
                          Vec(<<0, 0, -1, 0>>)))} :
  \E right \in {vector_normalize(vector_cross(Vec(<<0, 1, 0>>), vector_of(yawed)))} :
  \E direction \in {rotated(axis_angle(right, pitch), yawed)} :
  \E new_direction \in {vector_normalize(vector_of(direction))} :
  \E up_vector \in {vector_normalize(vector_cross(new_direction, right))} :
  \E up_quaternion \in {rotated(axis_angle(new_direction, roll), quaternion_of(up_vector))} :
    /\ m_direction' = new_direction
    /\ m_up' = vector_normalize(vector_of(up_quaternion))
    /\ m_view_dirty' = TRUE
    /\ m_matrix_dirty' = TRUE
    /\ UNCHANGED <<m_position, projectionParams, caches, m_projection_dirty>>

\* get_view() const: update(), then return m_view
get_view ==
  /\ update
  /\ cam_ret' = m_view'

\* A plausible bug: get_projection brings only the matrix it returns up to
\* date.
get_projection_alone ==
  /\ \E projection \in {IF m_projection_dirty
                         THEN projection_matrix(m_fov, m_aspect, m_near, m_far)
                         ELSE m_projection} :
       /\ m_projection' = projection
       /\ cam_ret' = projection
  /\ cam_recomputed' = [projection |-> m_projection_dirty, view |-> FALSE, matrix |-> FALSE]
  /\ m_projection_dirty' = FALSE
  /\ UNCHANGED <<m_view, m_matrix, m_view_dirty, m_matrix_dirty, projectionParams, viewParams>>

\* get_projection() const: update(), then return m_projection
get_projection ==
  /\ update
  /\ cam_ret' = m_projection'

\* get_matrix() const: update(), then return m_matrix
get_matrix ==
  /\ update
  /\ cam_ret' = m_matrix'

\* The members every constructor leaves to their default member initialisers
\* or, for the matrices, uninitialised.
Constructed(op, angles, values) ==
  /\ \E garbage \in IndeterminateMatrices :
       /\ m_projection = garbage
       /\ m_view = garbage
       /\ m_matrix = garbage
  /\ m_projection_dirty = TRUE
  /\ m_view_dirty = TRUE
  /\ m_matrix_dirty = TRUE
  /\ cam_ops = 0
  /\ cam_op = [op |-> op, angles |-> angles, values |-> values]
  /\ cam_prev = "none"
  /\ cam_ret = <<>>
  /\ cam_recomputed = NothingRecomputed

\* camera() = default
camera_default ==
  /\ m_position = Vec(<<0, 0, 0>>)
  /\ m_direction = Vec(<<0, 0, -1>>)
  /\ m_up = Vec(<<0, 1, 0>>)
  /\ m_fov = HalfPi
  /\ m_aspect = Num(1)
  /\ m_near = Num(1)
  /\ m_far = Num(1000)
  /\ Constructed("camera()", <<>>, <<>>)

\* camera( fov, aspect, near_distance, far_distance )
camera_projection(fov, aspect, near_distance, far_distance) ==
  /\ m_fov = fov
  /\ m_aspect = aspect
  /\ m_near = near_distance
  /\ m_far = far_distance
  /\ m_position = Vec(<<0, 0, 0>>)
  /\ m_direction = Vec(<<0, 0, -1>>)
  /\ m_up = Vec(<<0, 1, 0>>)
  /\ Constructed("camera(4)", <<fov>>, <<aspect, near_distance, far_distance>>)

\* camera( fov, aspect, near_distance, far_distance, position, direction, up )
camera_full(fov, aspect, near_distance, far_distance, position, direction, up) ==
  /\ m_position = position
  /\ m_fov = fov
  /\ m_aspect = aspect
  /\ m_near = near_distance
  /\ m_far = far_distance
  /\ m_direction = vector_normalize(direction)
  /\ m_up = vector_normalize(up)
  /\ Constructed("camera(7)", <<fov>>,
                 <<aspect, near_distance, far_distance>> \o position \o direction \o up)

CamInit ==
  \/ camera_default
  \/ \E a \in ProjectionCtorInputs : camera_projection(a[1], a[2], a[3], a[4])
  \/ \E a \in FullCtorInputs : camera_full(a[1], a[2], a[3], a[4], a[5], a[6], a[7])

SetFov == \E fov \in FovInputs : Call("set_fov", <<fov>>, <<>>) /\ Void /\ set_fov(fov)
SetAspect == \E x \in AspectInputs : Call("set_aspect", <<>>, <<x>>) /\ Void /\ set_aspect(x)
SetNearDistance ==
  \E x \in NearInputs : Call("set_near_distance", <<>>, <<x>>) /\ Void /\ set_near_distance(x)
SetFarDistance ==
  \E x \in FarInputs : Call("set_far_distance", <<>>, <<x>>) /\ Void /\ set_far_distance(x)
SetPosition ==
  \E v \in PositionInputs : Call("set_position", <<>>, v) /\ Void /\ set_position(v)
SetDirection ==
  \E v \in DirectionInputs : Call("set_direction", <<>>, v) /\ Void /\ set_direction(v)
SetUp == \E v \in UpInputs : Call("set_up", <<>>, v) /\ Void /\ set_up(v)
Move == \E v \in MoveInputs : Call("move", <<>>, v) /\ Void /\ move(v)
MoveRelative ==
  \E v \in MoveRelativeInputs : Call("move_relative", <<>>, v) /\ Void /\ move_relative(v)
Rotate == \E q \in RotationInputs : Call("rotate", <<>>, q) /\ Void /\ rotate(q)
RotateAxisAngle ==
  \E a \in AxisAngleInputs :
    Call("rotate_axis_angle", <<a[2]>>, a[1]) /\ Void /\ rotate_axis_angle(a[1], a[2])
SetOrientationTaitBryan ==
  \E a \in TaitBryanInputs :
    Call("set_orientation_taitbryan", a, <<>>) /\ Void
      /\ set_orientation_taitbryan(a[1], a[2], a[3])
GetView == Call("get_view", <<>>, <<>>) /\ get_view
GetProjection == Call("get_projection", <<>>, <<>>) /\ get_projection
GetMatrix == Call("get_matrix", <<>>, <<>>) /\ get_matrix

(***************************************************************************)
(* renderbuffer.hpp and framebuffer.hpp                                    *)
(***************************************************************************)
Renderbuffers == 1..MaxRenderbuffers

\* the names glGenRenderbuffers hands out
RenderbufferNames == 1..MaxRenderbuffers

\* the attachment points the calls name
Attachments == {"GL_DEPTH_ATTACHMENT", "GL_COLOR_ATTACHMENT0"}

\* the_width and the_height of the constructor calls, each within
\* GL_MAX_RENDERBUFFER_SIZE
StorageInputs == {<<1, 1>>, <<2, 1>>}

\* the renderbuffer names glGenRenderbuffers has handed out so far
RenderbuffersGenerated ==
  DOMAIN gl_storage \cup {n \in RenderbufferNames : rb_deletes[n] # <<>>}

\* glDeleteRenderbuffers( 1, &n ) for each n of names, called by the operation
\* during. The names' storage is freed; a name that is attached to the bound
\* framebuffer is detached from it, one attached to a framebuffer that is not
\* bound stays attached. The name 0 is silently ignored.
glDeleteRenderbuffers(names, during, bound, attachment) ==
  /\ gl_storage' = [n \in DOMAIN gl_storage \ names |-> gl_storage[n]]
  /\ gl_attachment' = [a \in Attachments |->
                         IF bound /\ attachment[a] \in names THEN 0 ELSE attachment[a]]
  /\ rb_deletes' = [n \in DOMAIN rb_deletes |->
                      IF n \in names THEN Append(rb_deletes[n], during) ELSE rb_deletes[n]]

\* renderbuffer::renderbuffer( internal_format, the_width, the_height ): the
\* members are initialised from the arguments, m_object generates the name n,
\* and glRenderbufferStorageMultisample allocates the storage.
renderbuffer_ctor(rb, the_width, the_height, n) ==
  /\ rb_lifetime[rb] = "unborn"
  /\ rb_lifetime' = [rb_lifetime EXCEPT ![rb] = "live"]
  /\ rb_object' = [rb_object EXCEPT ![rb] = n]
  /\ m_width' = [m_width EXCEPT ![rb] = the_width]
  /\ m_height' = [m_height EXCEPT ![rb] = the_height]
  /\ gl_storage' = [k \in DOMAIN gl_storage \cup {n} |->
                      IF k = n THEN <<the_width, the_height>> ELSE gl_storage[k]]
  /\ fb_op' = [op |-> "renderbuffer", rb |-> rb, attachment |-> "", ret |-> 0]
  /\ UNCHANGED <<fb_lifetime, m_renderbuffers, gl_attachment, rb_deletes, fb_attached>>
  /\ UNCHANGED nonFbVars

\* ~renderbuffer() of an object the caller holds: m_object deletes its name
\* (0 when the object was moved from); no framebuffer is bound.
renderbuffer_dtor(rb) ==
  /\ rb_lifetime[rb] = "live"
  /\ rb_lifetime' = [rb_lifetime EXCEPT ![rb] = "dead"]
  /\ glDeleteRenderbuffers({rb_object[rb]}, "~renderbuffer", FALSE, gl_attachment)
  /\ rb_object' = [rb_object EXCEPT ![rb] = 0]
  /\ fb_op' = [op |-> "~renderbuffer", rb |-> rb, attachment |-> "", ret |-> 0]
  /\ UNCHANGED <<m_width, m_height, fb_lifetime, m_renderbuffers, fb_attached>>
  /\ UNCHANGED nonFbVars

\* renderbuffer::width(): return m_width
renderbuffer_width(rb) ==
  /\ rb_lifetime[rb] = "live"
  /\ fb_op' = [op |-> "width", rb |-> rb, attachment |-> "", ret |-> m_width[rb]]
  /\ UNCHANGED <<rb_lifetime, rb_object, m_width, m_height, fb_lifetime, m_renderbuffers,
                 gl_storage, gl_attachment, rb_deletes, fb_attached>>
  /\ UNCHANGED nonFbVars

\* renderbuffer::height(): return m_width
renderbuffer_height(rb) ==
  /\ rb_lifetime[rb] = "live"
  /\ fb_op' = [op |-> "height", rb |-> rb, attachment |-> "", ret |-> m_width[rb]]
  /\ UNCHANGED <<rb_lifetime, rb_object, m_width, m_height, fb_lifetime, m_renderbuffers,
                 gl_storage, gl_attachment, rb_deletes, fb_attached>>
  /\ UNCHANGED nonFbVars

\* framebuffer::add_renderbuffer( attachment, std::move( rb ) ): bind(),
\* glFramebufferRenderbuffer with rb's name, m_renderbuffers.emplace, unbind().
\* emplace inserts nothing when the key is present; whether it has by then
\* constructed (and so destroys again) an element moved from rb is left to the
\* library, so both outcomes are taken. The element's destructor runs while
\* the framebuffer is bound.
framebuffer_add_renderbuffer(attachment, rb) ==
  /\ fb_lifetime = "live"
  /\ rb_lifetime[rb] = "live"
  /\ rb_object[rb] # 0
  /\ fb_attached' = [fb_attached EXCEPT ![attachment] = rb_object[rb]]
  /\ IF attachment \notin DOMAIN m_renderbuffers
     THEN /\ m_renderbuffers' =
               [a \in DOMAIN m_renderbuffers \cup {attachment} |->
                  IF a = attachment
                  THEN [name |-> rb_object[rb], m_width |-> m_width[rb], m_height |-> m_height[rb]]
                  ELSE m_renderbuffers[a]]
          /\ rb_object' = [rb_object EXCEPT ![rb] = 0]
          /\ gl_attachment' = [gl_attachment EXCEPT ![attachment] = rb_object[rb]]
          /\ UNCHANGED <<gl_storage, rb_deletes>>
     ELSE /\ UNCHANGED m_renderbuffers
          /\ \E constructed \in BOOLEAN :
               IF constructed
               THEN /\ rb_object' = [rb_object EXCEPT ![rb] = 0]
                    /\ glDeleteRenderbuffers({rb_object[rb]}, "add_renderbuffer", TRUE,
                                             [gl_attachment EXCEPT ![attachment] = rb_object[rb]])
               ELSE /\ gl_attachment' = [gl_attachment EXCEPT ![attachment] = rb_object[rb]]
                    /\ UNCHANGED <<rb_object, gl_storage, rb_deletes>>
  /\ fb_op' = [op |-> "add_renderbuffer", rb |-> rb, attachment |-> attachment, ret |-> 0]
  /\ UNCHANGED <<rb_lifetime, m_width, m_height, fb_lifetime>>
  /\ UNCHANGED nonFbVars

\* framebuffer::remove_renderbuffer( attachment ): bind(),
\* glFramebufferRenderbuffer with the name 0, m_renderbuffers.erase, unbind().
framebuffer_remove_renderbuffer(attachment) ==
  /\ fb_lifetime = "live"
  /\ fb_attached' = [fb_attached EXCEPT ![attachment] = 0]
  /\ glDeleteRenderbuffers({m_renderbuffers[a].name : a \in DOMAIN m_renderbuffers \cap {attachment}},
                           "remove_renderbuffer", TRUE,
                           [gl_attachment EXCEPT ![attachment] = 0])
  /\ m_renderbuffers' = [a \in DOMAIN m_renderbuffers \ {attachment} |-> m_renderbuffers[a]]
  /\ fb_op' = [op |-> "remove_renderbuffer", rb |-> 0, attachment |-> attachment, ret |-> 0]
  /\ UNCHANGED <<rb_lifetime, rb_object, m_width, m_height, fb_lifetime>>
  /\ UNCHANGED nonFbVars

\* ~framebuffer(): the members are destroyed in reverse order of declaration,
\* m_object (the framebuffer's name, and with it its attachments) and then
\* m_renderbuffers (every renderbuffer it holds).
framebuffer_dtor ==
  /\ fb_lifetime = "live"
  /\ fb_lifetime' = "dead"
  /\ fb_attached' = [a \in Attachments |-> 0]
  /\ glDeleteRenderbuffers({m_renderbuffers[a].name : a \in DOMAIN m_renderbuffers},
                           "~framebuffer", FALSE, [a \in Attachments |-> 0])
  /\ m_renderbuffers' = <<>>
  /\ fb_op' = [op |-> "~framebuffer", rb |-> 0, attachment |-> "", ret |-> 0]
  /\ UNCHANGED <<rb_lifetime, rb_object, m_width, m_height>>
  /\ UNCHANGED nonFbVars

\* the specifications without a framebuffer: its members do not exist
NoFramebuffer ==
  /\ rb_lifetime = <<>> /\ rb_object = <<>> /\ m_width = <<>> /\ m_height = <<>>
  /\ fb_lifetime = "none" /\ m_renderbuffers = <<>>
  /\ gl_storage = <<>> /\ gl_attachment = <<>> /\ rb_deletes = <<>> /\ fb_attached = <<>>
  /\ fb_op = [op |-> "none", rb |-> 0, attachment |-> "", ret |-> 0]

(***************************************************************************)
(* buffer.hpp                                                              *)
(***************************************************************************)
\* the buffer objects of the caller
Buffers == {1, 2}

\* the names glGenBuffers hands out
BufferNames == 1..MaxBufferNames

\* the offset, readoffset and writeoffset arguments
OffsetInputs == {0, 1}

\* the data_size arguments
DataSizeInputs == {1, 2}

\* what data_ptr points to: nullptr, or data_size bytes of one value
nullptr == 0
DataPtrInputs == {1}

\* the bytes of a data store that glBufferData( ..., nullptr, ... ) allocated
\* are undefined: one of these values throughout
UndefinedBytes == {0, 255}

\* the buffer names glGenBuffers has handed out so far
BuffersGenerated ==
  DOMAIN gl_buffer_data \cup {n \in BufferNames : gl_buffer_deletes[n] > 0}

\* glBufferData( Target, data_size, data_ptr, Usage ): a new data store
glBufferData(data_size, data_ptr, undefined) ==
  [i \in 1..data_size |-> IF data_ptr = nullptr THEN undefined ELSE data_ptr]

\* glBufferSubData( Target, offset, data_size, data_ptr ) on the data store
glBufferSubData(store, offset, data_size, data_ptr) ==
  [i \in 1..Len(store) |->
     IF offset < i /\ i <= offset + data_size THEN data_ptr ELSE store[i]]

\* glCopyBufferSubData( read, write, readoffset, writeoffset, data_size ) on
\* the data store written to
glCopyBufferSubData(read, write, readoffset, writeoffset, data_size) ==
  [i \in 1..Len(write) |->
     IF writeoffset < i /\ i <= writeoffset + data_size
     THEN read[i - writeoffset + readoffset]
     ELSE write[i]]

\* the data stores with the store of the name n replaced
WithStore(stores, n, store) ==
  [k \in DOMAIN stores \cup {n} |-> IF k = n THEN store ELSE stores[k]]

\* The block that replaces the buffer b in sub_data and copy_sub_data, when
\* no assert stops it: new_buffer (generated as fresh) gets a store of
\* needed bytes from data( needed, nullptr ), copy_sub_data( *this, 0, 0,
\* m_size ) copies the old store into it, std::swap exchanges the two objects
\* (its temporary dies holding the name 0) and new_buffer dies holding the old
\* name. The result is the GL's data stores afterwards.
replaced(b, needed, fresh, undefined) ==
  [k \in (DOMAIN gl_buffer_data \ {buf_object[b]}) \cup {fresh} |->
     IF k = fresh
     THEN glCopyBufferSubData(gl_buffer_data[buf_object[b]],
                              glBufferData(needed, nullptr, undefined),
                              0, 0, m_size[b])
     ELSE gl_buffer_data[k]]

\* the members and the deletions after that block
Replace(b, needed, fresh) ==
  /\ buf_object' = [buf_object EXCEPT ![b] = fresh]
  /\ m_size' = [m_size EXCEPT ![b] = needed]
  /\ gl_buffer_deletes' = [gl_buffer_deletes EXCEPT ![0] = @ + 1,
                                                     ![buf_object[b]] = @ + 1]

\* a call, and the buffer b as the call finds it
Before(op, b, offset, data_size) ==
  [op |-> op, buffer |-> b, offset |-> offset, data_size |-> data_size,
   name |-> buf_object[b], size |-> m_size[b], data |-> gl_buffer_data[buf_object[b]],
   calls |-> buf_op.calls + 1]

\* buffer::data( data_size, data_ptr ): m_size is set, glBufferData allocates
\* the store, and with a data_ptr sub_data( 0, m_size, data_ptr ) uploads into
\* it (m_size is not less than 0 + m_size, so nothing is replaced).
buffer_data(b, data_size, data_ptr, undefined) ==
  /\ assert_failed = ""
  /\ buf_op.calls < MaxBufferOps
  /\ m_size' = [m_size EXCEPT ![b] = data_size]
  /\ gl_buffer_data' =
       WithStore(gl_buffer_data, buf_object[b],
                 IF data_ptr = nullptr
                 THEN glBufferData(data_size, data_ptr, undefined)
                 ELSE glBufferSubData(glBufferData(data_size, data_ptr, undefined),
                                      0, data_size, data_ptr))
  /\ buf_op' = Before("data", b, 0, data_size)
  /\ UNCHANGED <<buf_object, gl_buffer_deletes, assert_failed>>
  /\ UNCHANGED nonBufVars

\* buffer::sub_data( offset, data_size, data_ptr ). When m_size is less than
\* offset + data_size the buffer is replaced, and the block calls
\* new_buffer.copy_sub_data( *this, 0, 0, m_size ) whatever m_size is: with
\* m_size 0 the assert( data_size > 0 ) of copy_sub_data fails unless NDEBUG
\* is defined, and the program aborts with new_buffer allocated. Then
\* glBufferSubData uploads.
buffer_sub_data(b, offset, data_size, data_ptr, fresh, undefined) ==
  /\ assert_failed = ""
  /\ buf_op.calls < MaxBufferOps
  /\ buf_op' = Before("sub_data", b, offset, data_size)
  /\ IF m_size[b] < offset + data_size
     THEN IF ~ndebug /\ ~(m_size[b] > 0)
          THEN /\ assert_failed' = "data_size > 0"
               /\ gl_buffer_data' =
                    WithStore(gl_buffer_data, fresh,
                              glBufferData(offset + data_size, nullptr, undefined))
               /\ UNCHANGED <<buf_object, m_size, gl_buffer_deletes>>
          ELSE /\ Replace(b, offset + data_size, fresh)
               /\ \E stores \in {replaced(b, offset + data_size, fresh, undefined)} :
                    gl_buffer_data' =
                      WithStore(stores, fresh,
                                glBufferSubData(stores[fresh], offset, data_size, data_ptr))
               /\ UNCHANGED assert_failed
     ELSE /\ gl_buffer_data' =
               WithStore(gl_buffer_data, buf_object[b],
                         glBufferSubData(gl_buffer_data[buf_object[b]],
                                         offset, data_size, data_ptr))
          /\ UNCHANGED <<buf_object, m_size, gl_buffer_deletes, assert_failed>>
  /\ UNCHANGED nonBufVars

\* buffer::copy_sub_data( source, readoffset, writeoffset, data_size ), called
\* with a data_size greater than 0 that source holds from readoffset on, so
\* its two asserts pass. When m_size is less than writeoffset + data_size the
\* buffer is replaced, the old store being copied only if m_size is not 0.
\* Then glCopyBufferSubData copies from source.
buffer_copy_sub_data(b, source, readoffset, writeoffset, data_size, fresh, undefined) ==
  /\ assert_failed = ""
  /\ buf_op.calls < MaxBufferOps
  /\ source # b
  /\ data_size > 0
  /\ m_size[source] >= readoffset + data_size
  /\ buf_op' = Before("copy_sub_data", b, writeoffset, data_size)
  /\ IF m_size[b] < writeoffset + data_size
     THEN /\ Replace(b, writeoffset + data_size, fresh)
          /\ \E stores \in {replaced(b, writeoffset + data_size, fresh, undefined)} :
               gl_buffer_data' =
                 WithStore(stores, fresh,
                           glCopyBufferSubData(gl_buffer_data[buf_object[source]],
                                               stores[fresh],
                                               readoffset, writeoffset, data_size))
     ELSE /\ gl_buffer_data' =
               WithStore(gl_buffer_data, buf_object[b],
                         glCopyBufferSubData(gl_buffer_data[buf_object[source]],
                                             gl_buffer_data[buf_object[b]],
                                             readoffset, writeoffset, data_size))
          /\ UNCHANGED <<buf_object, m_size, gl_buffer_deletes>>
  /\ UNCHANGED assert_failed
  /\ UNCHANGED nonBufVars

\* the names a call may get from glGenBuffers when it replaces the buffer b
Fresh(b, needed) ==
  IF m_size[b] < needed THEN BufferNames \ BuffersGenerated ELSE {0}

(***************************************************************************)
(* sync.hpp                                                                *)
(***************************************************************************)
Syncs == 1..MaxSyncs

\* the sync objects glFenceSync returns
Fences == 1..MaxFences

\* glDeleteSync( fence ), called by the operation during: the fence is
\* deleted; a fence of 0 is silently ignored.
glDeleteSync(fence, during) ==
  /\ gl_fence' = [f \in Fences |-> IF f = fence THEN "deleted" ELSE gl_fence[f]]
  /\ sync_deletes' = [f \in Fences |->
                        IF f = fence THEN Append(sync_deletes[f], during) ELSE sync_deletes[f]]

\* sync::sync(): m_sync( 0 )
sync_ctor(self) ==
  /\ sync_lifetime[self] = "unborn"
  /\ sync_lifetime' = [sync_lifetime EXCEPT ![self] = "live"]
  /\ m_sync' = [m_sync EXCEPT ![self] = 0]
  /\ sync_op' = [op |-> "sync", self |-> self, other |-> 0, ret |-> FALSE]
  /\ UNCHANGED <<gl_fence, sync_deletes>>
  /\ UNCHANGED nonSyncVars

\* sync::~sync(): glDeleteSync( m_sync )
sync_dtor(self) ==
  /\ sync_lifetime[self] = "live"
  /\ glDeleteSync(m_sync[self], "~sync")
  /\ sync_lifetime' = [sync_lifetime EXCEPT ![self] = "dead"]
  /\ m_sync' = [m_sync EXCEPT ![self] = 0]
  /\ sync_op' = [op |-> "~sync", self |-> self, other |-> 0, ret |-> FALSE]
  /\ UNCHANGED nonSyncVars

\* sync::sync( sync&& other ): m_sync( 0 ), then std::swap of the two m_sync
sync_move_ctor(self, other) ==
  /\ sync_lifetime[self] = "unborn"
  /\ sync_lifetime[other] = "live"
  /\ sync_lifetime' = [sync_lifetime EXCEPT ![self] = "live"]
  /\ m_sync' = [m_sync EXCEPT ![self] = m_sync[other], ![other] = 0]
  /\ sync_op' = [op |-> "sync( sync&& )", self |-> self, other |-> other, ret |-> FALSE]
  /\ UNCHANGED <<gl_fence, sync_deletes>>
  /\ UNCHANGED nonSyncVars

\* A plausible bug: move assignment takes the other's fence and forgets its own.
sync_move_assign_takes(self, other) ==
  /\ sync_lifetime[self] = "live"
  /\ sync_lifetime[other] = "live"
  /\ m_sync' = IF self = other THEN m_sync
               ELSE [m_sync EXCEPT ![self] = m_sync[other], ![other] = 0]
  /\ sync_op' = [op |-> "operator=", self |-> self, other |-> other, ret |-> FALSE]
  /\ UNCHANGED <<sync_lifetime, gl_fence, sync_deletes>>
  /\ UNCHANGED nonSyncVars

\* sync::operator=( sync&& other ): std::swap of the two m_sync
sync_move_assign(self, other) ==
  /\ sync_lifetime[self] = "live"
  /\ sync_lifetime[other] = "live"
  /\ m_sync' = [m_sync EXCEPT ![self] = m_sync[other], ![other] = m_sync[self]]
  /\ sync_op' = [op |-> "operator=", self |-> self, other |-> other, ret |-> FALSE]
  /\ UNCHANGED <<sync_lifetime, gl_fence, sync_deletes>>
  /\ UNCHANGED nonSyncVars

\* sync::insert(): glDeleteSync( m_sync ), then m_sync = glFenceSync( ... ),
\* which returns a fence it has not returned before, unsignaled.
sync_insert(self, fence) ==
  /\ sync_lifetime[self] = "live"
  /\ gl_fence[fence] = "none"
  /\ gl_fence' = [f \in Fences |->
                    IF f = fence THEN "unsignaled"
                    ELSE IF f = m_sync[self] THEN "deleted"
                    ELSE gl_fence[f]]
  /\ sync_deletes' = [f \in Fences |->
                        IF f = m_sync[self] THEN Append(sync_deletes[f], "insert")
                        ELSE sync_deletes[f]]
  /\ m_sync' = [m_sync EXCEPT ![self] = fence]
  /\ sync_op' = [op |-> "insert", self |-> self, other |-> 0, ret |-> FALSE]
  /\ UNCHANGED sync_lifetime
  /\ UNCHANGED nonSyncVars

\* sync::expired(): wait( 0 ), that is glClientWaitSync( m_sync, ..., 0 ),
\* which reports GL_ALREADY_SIGNALED for a signaled fence, GL_TIMEOUT_EXPIRED
\* for an unsignaled one and GL_WAIT_FAILED for 0.
sync_expired(self) ==
  /\ sync_lifetime[self] = "live"
  /\ sync_op' = [op |-> "expired", self |-> self, other |-> 0,
                 ret |-> m_sync[self] # 0 /\ gl_fence[m_sync[self]] = "signaled"]
  /\ UNCHANGED <<sync_lifetime, m_sync, gl_fence, sync_deletes>>
  /\ UNCHANGED nonSyncVars

\* The GL server completes the commands that precede a fence: the fence
\* becomes signaled.
gl_signal(fence) ==
  /\ gl_fence[fence] = "unsignaled"
  /\ gl_fence' = [gl_fence EXCEPT ![fence] = "signaled"]
  /\ UNCHANGED <<sync_lifetime, m_sync, sync_deletes, sync_op>>
  /\ UNCHANGED nonSyncVars

(***************************************************************************)
(* query.hpp                                                               *)
(***************************************************************************)
\* the query objects of the caller, all of one Target
QueryObjects == {1, 2}

\* the queries that are active on the Target
QueryActive == {q \in QueryObjects : gl_query[q] = "active"}

\* glBeginQuery( Target, name ): the query becomes active; while a query is
\* active on the Target the call raises GL_INVALID_OPERATION and has no effect.
glBeginQuery(q) ==
  [gl_query |-> IF QueryActive = {} THEN [gl_query EXCEPT ![q] = "active"] ELSE gl_query,
   call |-> [call |-> "glBeginQuery", query |-> q, error |-> QueryActive # {}]]

\* glEndQuery( Target ): the query active on the Target ends, its result
\* pending; with none active the call raises GL_INVALID_OPERATION.
glEndQuery ==
  [gl_query |-> [q \in QueryObjects |-> IF gl_query[q] = "active" THEN "ended" ELSE gl_query[q]],
   call |-> [call |-> "glEndQuery", query |-> 0, error |-> QueryActive = {}]]

\* a call of a member function: the history
QueryCall(op, q, ret, manual) ==
  /\ query_op.calls < MaxQueryOps
  /\ query_op' = [op |-> op, query |-> q, ret |-> ret, calls |-> query_op.calls + 1,
                  manual |-> query_op.manual \/ manual]
  /\ UNCHANGED nonQueryVars

\* A plausible bug: run() without the test of m_waiting.
query_run_always(q) ==
  /\ QueryCall("run", q, FALSE, FALSE)
  /\ m_waiting' = [m_waiting EXCEPT ![q] = TRUE]
  /\ gl_query' = glBeginQuery(q).gl_query
  /\ gl_query_calls' = gl_query_calls \o
       <<glBeginQuery(q).call, [call |-> "callable", query |-> q, error |-> FALSE]>>
  /\ query_stack' = Append(query_stack, [query |-> q, began |-> TRUE])

\* query::run( callable ) up to the point where the callable runs: with
\* m_waiting set the callable is called at once; otherwise m_waiting is set
\* and glBeginQuery called first. The frame records which.
query_run(q) ==
  /\ QueryCall("run", q, FALSE, FALSE)
  /\ IF m_waiting[q]
     THEN /\ gl_query_calls' = Append(gl_query_calls,
                                      [call |-> "callable", query |-> q, error |-> FALSE])
          /\ query_stack' = Append(query_stack, [query |-> q, began |-> FALSE])
          /\ UNCHANGED <<m_waiting, gl_query>>
     ELSE /\ m_waiting' = [m_waiting EXCEPT ![q] = TRUE]
          /\ gl_query' = glBeginQuery(q).gl_query
          /\ gl_query_calls' = gl_query_calls \o
               <<glBeginQuery(q).call, [call |-> "callable", query |-> q, error |-> FALSE]>>
          /\ query_stack' = Append(query_stack, [query |-> q, began |-> TRUE])

\* query::run( callable ) from the point where the innermost callable
\* returns: return at once, or glEndQuery first.
query_run_return ==
  /\ query_stack # <<>>
  /\ \E frame \in {query_stack[Len(query_stack)]} :
       /\ query_op' = [query_op EXCEPT !.op = "run returns", !.query = frame.query,
                                       !.ret = FALSE]
       /\ IF frame.began
          THEN /\ gl_query' = glEndQuery.gl_query
               /\ gl_query_calls' = Append(gl_query_calls, glEndQuery.call)
          ELSE UNCHANGED <<gl_query, gl_query_calls>>
  /\ query_stack' = SubSeq(query_stack, 1, Len(query_stack) - 1)
  /\ UNCHANGED m_waiting
  /\ UNCHANGED nonQueryVars

\* query::begin()
query_begin(q) ==
  /\ QueryCall("begin", q, FALSE, TRUE)
  /\ IF m_waiting[q]
     THEN UNCHANGED <<m_waiting, gl_query, gl_query_calls>>
     ELSE /\ m_waiting' = [m_waiting EXCEPT ![q] = TRUE]
          /\ gl_query' = glBeginQuery(q).gl_query
          /\ gl_query_calls' = Append(gl_query_calls, glBeginQuery(q).call)
  /\ UNCHANGED query_stack

\* query::end()
query_end(q) ==
  /\ QueryCall("end", q, FALSE, TRUE)
  /\ gl_query' = glEndQuery.gl_query
  /\ gl_query_calls' = Append(gl_query_calls, glEndQuery.call)
  /\ UNCHANGED <<m_waiting, query_stack>>

\* query::poll_result( result ): if( m_waiting && !ready() ) return false;
\* then glGetQueryObject( GL_QUERY_RESULT ) and return true. ready() asks the
\* GL for GL_QUERY_RESULT_AVAILABLE into result_ready, which starts as 0 and
\* stays 0 when the GL raises an error (the query is active, or was never
\* begun), sets m_waiting to result_ready == GL_FALSE and returns
\* result_ready == GL_TRUE.
query_poll_result(q) ==
  /\ IF m_waiting[q]
     THEN /\ m_waiting' = [m_waiting EXCEPT ![q] = gl_query[q] # "available"]
          /\ QueryCall("poll_result", q, gl_query[q] = "available", FALSE)
     ELSE /\ QueryCall("poll_result", q, TRUE, FALSE)
          /\ UNCHANGED m_waiting
  /\ UNCHANGED <<gl_query, query_stack, gl_query_calls>>

\* The GL server finishes a query that has ended: its result becomes available.
gl_result_available(q) ==
  /\ gl_query[q] = "ended"
  /\ gl_query' = [gl_query EXCEPT ![q] = "available"]
  /\ UNCHANGED <<m_waiting, query_stack, gl_query_calls, query_op>>
  /\ UNCHANGED nonQueryVars

ObjInit ==
  /\ lifetime = [h \in Handles |-> "unborn"]
  /\ m_name = [h \in Handles |-> 0]
  /\ gen_calls = EmptyBag
  /\ del_calls = EmptyBag
  /\ gl_error = GL_NO_ERROR
  /\ error_stream = <<>>
  /\ ndebug \in BOOLEAN
  /\ born = [h \in Handles |-> NoHistory]
  /\ obj_op = [op |-> "none", self |-> 0, other |-> 0, self_was |-> 0, other_was |-> 0]

\* Spec and SpecGenFail have no camera: its members do not exist.
NoCamera ==
  /\ m_projection = <<>> /\ m_view = <<>> /\ m_matrix = <<>>
  /\ m_position = <<>> /\ m_direction = <<>> /\ m_up = <<>>
  /\ m_fov = <<>> /\ m_aspect = <<>> /\ m_near = <<>> /\ m_far = <<>>
  /\ m_projection_dirty = <<>> /\ m_view_dirty = <<>> /\ m_matrix_dirty = <<>>
  /\ cam_ops = 0
  /\ cam_op = [op |-> "none", angles |-> <<>>, values |-> <<>>]
  /\ cam_prev = "none"
  /\ cam_ret = <<>>
  /\ cam_recomputed = NothingRecomputed

\* the specifications without a buffer: its members do not exist
NoBuffer ==
  /\ buf_object = <<>> /\ m_size = <<>>
  /\ gl_buffer_data = <<>> /\ gl_buffer_deletes = <<>>
  /\ assert_failed = ""
  /\ buf_op = [op |-> "none", buffer |-> 0, offset |-> 0, data_size |-> 0,
               name |-> 0, size |-> 0, data |-> <<>>, calls |-> 0]

\* the specifications without a sync: its members do not exist
NoSync ==
  /\ sync_lifetime = <<>> /\ m_sync = <<>>
  /\ gl_fence = <<>> /\ sync_deletes = <<>>
  /\ sync_op = [op |-> "none", self |-> 0, other |-> 0, ret |-> FALSE]

\* the specifications without a query: its members do not exist
NoQuery ==
  /\ m_waiting = <<>> /\ gl_query = <<>>
  /\ query_stack = <<>> /\ gl_query_calls = <<>>
  /\ query_op = [op |-> "none", query |-> 0, ret |-> FALSE, calls |-> 0, manual |-> FALSE]

\* either build
InitGenFail == ObjInit /\ NoCamera /\ NoFramebuffer /\ NoBuffer /\ NoSync /\ NoQuery

\* While no call raises a GL error do_check_gl_error finds GL_NO_ERROR and does
\* nothing, so the two builds behave alike: Spec takes the debug build, where
\* do_check_gl_error is called.
Init == InitGenFail /\ ndebug = FALSE

Construct == \E h \in Handles : \E gen \in GeneratorSucceeds : object_ctor(h, gen)
ConstructFailing == \E h \in Handles : \E gen \in GeneratorFails : object_ctor(h, gen)
Destruct == \E h \in Handles : object_dtor(h)
MoveConstruct == \E h \in Handles : \E other \in Handles : object_move_ctor(h, other)
MoveAssign == \E h \in Handles : \E other \in Handles : object_move_assign(h, other)

Next ==
  \/ Construct
  \/ Destruct
  \/ MoveConstruct
  \/ MoveAssign

Spec == Init /\ [][Next]_vars

NextGenFail ==
  \/ Construct
  \/ ConstructFailing
  \/ Destruct
  \/ MoveConstruct
  \/ MoveAssign

SpecGenFail == InitGenFail /\ [][NextGenFail]_vars

\* one camera, and no handle
InitCamera ==
  /\ ObjInit /\ ndebug = FALSE /\ CamInit
  /\ NoFramebuffer /\ NoBuffer /\ NoSync /\ NoQuery

NextCamera ==
  \/ SetFov
  \/ SetAspect
  \/ SetNearDistance
  \/ SetFarDistance
  \/ SetPosition
  \/ SetDirection
  \/ SetUp
  \/ Move
  \/ MoveRelative
  \/ Rotate
  \/ RotateAxisAngle
  \/ SetOrientationTaitBryan
  \/ GetView
  \/ GetProjection
  \/ GetMatrix

SpecCamera == InitCamera /\ [][NextCamera]_vars

\* One framebuffer just constructed, and no renderbuffer yet.
InitFramebuffer ==
  /\ ObjInit /\ ndebug = FALSE /\ NoCamera
  /\ NoBuffer /\ NoSync /\ NoQuery
  /\ rb_lifetime = [rb \in Renderbuffers |-> "unborn"]
  /\ rb_object = [rb \in Renderbuffers |-> 0]
  /\ m_width = [rb \in Renderbuffers |-> 0]
  /\ m_height = [rb \in Renderbuffers |-> 0]
  /\ fb_lifetime = "live"
  /\ m_renderbuffers = <<>>
  /\ gl_storage = <<>>
  /\ gl_attachment = [a \in Attachments |-> 0]
  /\ rb_deletes = [n \in {0} \cup RenderbufferNames |-> <<>>]
  /\ fb_attached = [a \in Attachments |-> 0]
  /\ fb_op = [op |-> "none", rb |-> 0, attachment |-> "", ret |-> 0]

NextFramebuffer ==
  \/ \E rb \in Renderbuffers : \E size \in StorageInputs :
       \E n \in RenderbufferNames \ RenderbuffersGenerated :
         renderbuffer_ctor(rb, size[1], size[2], n)
  \/ \E rb \in Renderbuffers : renderbuffer_dtor(rb)
  \/ \E rb \in Renderbuffers : renderbuffer_width(rb)
  \/ \E rb \in Renderbuffers : renderbuffer_height(rb)
  \/ \E attachment \in Attachments : \E rb \in Renderbuffers :
       framebuffer_add_renderbuffer(attachment, rb)
  \/ \E attachment \in Attachments : framebuffer_remove_renderbuffer(attachment)
  \/ framebuffer_dtor

SpecFramebuffer == InitFramebuffer /\ [][NextFramebuffer]_vars

\* Two buffers just constructed, in either build: each has its name, m_size = 0
\* and no data store.
InitBuffer ==
  /\ ObjInit /\ NoCamera
  /\ NoFramebuffer /\ NoSync /\ NoQuery
  /\ buf_object = [b \in Buffers |-> b]
  /\ m_size = [b \in Buffers |-> 0]
  /\ gl_buffer_data = [n \in Buffers |-> <<>>]
  /\ gl_buffer_deletes = [n \in {0} \cup BufferNames |-> 0]
  /\ assert_failed = ""
  /\ buf_op = [op |-> "none", buffer |-> 0, offset |-> 0, data_size |-> 0,
               name |-> 0, size |-> 0, data |-> <<>>, calls |-> 0]

NextBuffer ==
  \/ \E b \in Buffers : \E data_size \in DataSizeInputs :
       \E data_ptr \in {nullptr} \cup DataPtrInputs : \E undefined \in UndefinedBytes :
         buffer_data(b, data_size, data_ptr, undefined)
  \/ \E b \in Buffers : \E offset \in OffsetInputs : \E data_size \in DataSizeInputs :
       \E data_ptr \in DataPtrInputs : \E fresh \in Fresh(b, offset + data_size) :
         \E undefined \in UndefinedBytes :
           buffer_sub_data(b, offset, data_size, data_ptr, fresh, undefined)
  \/ \E b \in Buffers : \E source \in Buffers :
       \E readoffset \in {0} : \E writeoffset \in OffsetInputs :
         \E data_size \in DataSizeInputs : \E fresh \in Fresh(b, writeoffset + data_size) :
           \E undefined \in UndefinedBytes :
             buffer_copy_sub_data(b, source, readoffset, writeoffset, data_size, fresh, undefined)

SpecBuffer == InitBuffer /\ [][NextBuffer]_vars

\* No sync object and no fence yet; then sync objects, their fences and the GL
\* server.
InitSync ==
  /\ ObjInit /\ ndebug = FALSE /\ NoCamera
  /\ NoFramebuffer /\ NoBuffer /\ NoQuery
  /\ sync_lifetime = [s \in Syncs |-> "unborn"]
  /\ m_sync = [s \in Syncs |-> 0]
  /\ gl_fence = [f \in Fences |-> "none"]
  /\ sync_deletes = [f \in Fences |-> <<>>]
  /\ sync_op = [op |-> "none", self |-> 0, other |-> 0, ret |-> FALSE]

NextSync ==
  \/ \E self \in Syncs : sync_ctor(self)
  \/ \E self \in Syncs : sync_dtor(self)
  \/ \E self \in Syncs : \E other \in Syncs : sync_move_ctor(self, other)
  \/ \E self \in Syncs : \E other \in Syncs : sync_move_assign(self, other)
  \/ \E self \in Syncs : \E fence \in Fences : sync_insert(self, fence)
  \/ \E self \in Syncs : sync_expired(self)
  \/ \E fence \in Fences : gl_signal(fence)

SpecSync == InitSync /\ [][NextSync]_vars

\* Two query objects just constructed, m_waiting = false, their names not yet
\* used with the GL.
InitQuery ==
  /\ ObjInit /\ ndebug = FALSE /\ NoCamera
  /\ NoFramebuffer /\ NoBuffer /\ NoSync
  /\ m_waiting = [q \in QueryObjects |-> FALSE]
  /\ gl_query = [q \in QueryObjects |-> "unused"]
  /\ query_stack = <<>>
  /\ gl_query_calls = <<>>
  /\ query_op = [op |-> "none", query |-> 0, ret |-> FALSE, calls |-> 0, manual |-> FALSE]

NextQuery ==
  \/ \E q \in QueryObjects : query_run(q)
  \/ query_run_return
  \/ \E q \in QueryObjects : query_begin(q)
  \/ \E q \in QueryObjects : query_end(q)
  \/ \E q \in QueryObjects : query_poll_result(q)
  \/ \E q \in QueryObjects : gl_result_available(q)

SpecQuery == InitQuery /\ [][NextQuery]_vars

(***************************************************************************)
(* Claims about gls::object                                                *)
(***************************************************************************)
\* how many times the Deleter has been called with the name x
Released(x) ==
  LET calls == {c \in BagToSet(del_calls) : c.name = x}
  IN  BagCardinality([c \in calls |-> del_calls[c]])

Holders(x) == {h \in Live : name(h) = x}

OneCall(call) == SetToBag({call})

\* C1: no non-sentinel identifier is returned by name() of more than one live
\* handle at the same time.
Inv_C1_SingleOwner ==
  \A a \in Live : \A b \in Live :
    (a # b /\ name(a) # 0) => name(a) # name(b)

\* Two live handles hold different names after a move assignment between
\* them, a third handle was moved from and destroyed.
Wit_C1_SingleOwner ==
  /\ obj_op.op = "move_assign"
  /\ obj_op.self # obj_op.other
  /\ name(obj_op.self) # 0
  /\ name(obj_op.other) # 0
  /\ \E h \in Handles : lifetime[h] = "dead" /\ born[h].moved
  /\ \E h \in Live : born[h].how = "move"

\* C2: every identifier the Generator produced has been passed to the Deleter
\* exactly once as soon as no live handle holds it (so: once all handles are
\* destroyed), and not at all while a live handle holds it.
Inv_C2_ReleasedOnce ==
  \A x \in Generated :
    Released(x) = IF Holders(x) # {} THEN 0 ELSE 1

\* Every handle is gone after move constructions and move assignments, and
\* two names were produced.
Wit_C2_ReleasedOnce ==
  /\ Live = {}
  /\ Cardinality(Generated) = 2
  /\ \E h \in Handles : born[h].how = "move"
  /\ \E h \in Handles : born[h].how = "default" /\ born[h].moved
  /\ obj_op.op = "destruct"

\* C3: a move assignment A = move(B) exchanges the two names and calls
\* neither the Generator nor the Deleter; if B is destroyed next, the Deleter
\* is called once, with the name A held before the assignment.
Thm_C3_MoveAssignSwaps ==
  [][ /\ obj_op'.op = "move_assign" =>
           /\ m_name'[obj_op'.self] = m_name[obj_op'.other]
           /\ m_name'[obj_op'.other] = m_name[obj_op'.self]
           /\ del_calls' = del_calls
           /\ gen_calls' = gen_calls
      /\ (obj_op.op = "move_assign" /\ obj_op'.op = "destruct"
            /\ obj_op'.self = obj_op.other) =>
           del_calls' = del_calls (+) OneCall([n |-> 1, name |-> obj_op.self_was])
    ]_vars

\* A move assignment between two handles that held different non-zero names.
Wit_C3_MoveAssignSwaps ==
  /\ obj_op.op = "move_assign"
  /\ obj_op.self # obj_op.other
  /\ obj_op.self_was # 0
  /\ obj_op.other_was # 0
  /\ name(obj_op.self) = obj_op.other_was
  /\ name(obj_op.other) = obj_op.self_was

\* C4 as claimed: the source of a move construction or of a move assignment
\* (to another handle) returns 0 from name().
Cex_C4_MovedFromIsSentinel ==
  (obj_op.op \in {"move_construct", "move_assign"} /\ obj_op.self # obj_op.other)
    => name(obj_op.other) = 0

\* C4 as amended: the source of a move construction returns 0 from name();
\* the source of a move assignment returns the name the destination held
\* before the assignment.
Inv_C4_MovedFrom ==
  /\ obj_op.op = "move_construct" => name(obj_op.other) = 0
  /\ obj_op.op = "move_assign" => name(obj_op.other) = obj_op.self_was

\* The source of a move assignment holds the destination's former, non-zero
\* name.
Wit_C4_MovedFrom ==
  /\ obj_op.op = "move_assign"
  /\ obj_op.self # obj_op.other
  /\ obj_op.self_was # 0
  /\ name(obj_op.other) = obj_op.self_was

\* the name a move-constructed handle took over is released exactly once, and
\* only when no live handle holds it any more
MovedNameReleasedOnce ==
  \A a \in Handles :
    (born[a].how = "move" /\ born[a].got # 0) =>
      Released(born[a].got) = IF Holders(born[a].got) # {} THEN 0 ELSE 1

\* C5: a move construction A(move(B)) gives A the name B held and leaves B
\* with 0, and calls neither the Generator nor the Deleter; the name is
\* released exactly once over the lifetime of the handles.
Thm_C5_MoveConstruct ==
  [][ /\ obj_op'.op = "move_construct" =>
           /\ m_name'[obj_op'.self] = m_name[obj_op'.other]
           /\ m_name'[obj_op'.other] = 0
           /\ gen_calls' = gen_calls
           /\ del_calls' = del_calls
      /\ MovedNameReleasedOnce'
    ]_vars

\* A handle move-constructed from a handle with a non-zero name, both
\* destroyed since, the name released.
Wit_C5_MoveConstruct ==
  \E a \in Handles : \E b \in Handles :
    /\ born[a].how = "move" /\ born[a].got # 0
    /\ born[b].how = "default" /\ born[b].got = born[a].got
    /\ lifetime[a] = "dead" /\ lifetime[b] = "dead"
    /\ Released(born[a].got) = 1

\* C6: the default constructor calls the Generator exactly once, with count
\* 1, and name() returns the name it wrote; destroying a default-constructed
\* handle that was never moved calls the Deleter exactly once, with count 1
\* and that name.
Thm_C6_ConstructDestruct ==
  [][ /\ obj_op'.op = "construct" =>
           /\ m_name'[obj_op'.self] # 0
           /\ gen_calls' = gen_calls (+) OneCall([n |-> 1, wrote |-> m_name'[obj_op'.self]])
           /\ del_calls' = del_calls
      /\ (obj_op'.op = "destruct" /\ born[obj_op'.self].how = "default"
            /\ ~born[obj_op'.self].moved) =>
           /\ del_calls' = del_calls (+) OneCall([n |-> 1, name |-> born[obj_op'.self].got])
           /\ gen_calls' = gen_calls
    ]_vars

\* A default-constructed handle was destroyed without having been moved.
Wit_C6_ConstructDestruct ==
  /\ obj_op.op = "destruct"
  /\ born[obj_op.self].how = "default"
  /\ ~born[obj_op.self].moved
  /\ Released(born[obj_op.self].got) = 1

\* what a caller can observe of a handle: object has no accessor but name()
Observable(h) == name(h)

\* C7 as claimed: a handle whose creation failed is constructed, and while it
\* has not taken part in a move its observable state differs from that of
\* every handle whose creation succeeded.
Cex_C7_FailedCreationMarked ==
  \A h \in Handles : \A g \in Live :
    (born[h].failed /\ ~born[h].moved) =>
      /\ lifetime[h] # "unborn"
      /\ (h \in Live /\ born[g].how = "default" /\ ~born[g].failed /\ ~born[g].moved)
           => Observable(h) # Observable(g)

(***************************************************************************)
(* Claims about the camera (SpecCamera).                                   *)
(***************************************************************************)
Queries == {"get_projection", "get_view", "get_matrix"}

\* the three matrices as update() derives them from the parameters of this state
CurrentProjection == projection_matrix(m_fov, m_aspect, m_near, m_far)
CurrentView == view_matrix(m_position, m_direction, m_up)
ProductOf(projection, view, matrix) == matrix = matrix_mult(projection, view)

\* C8: whatever calls came before, the matrix a query returns is the one
\* derived from the parameters the camera has when the query is made: it is
\* neither a matrix computed from parameters changed since, nor the
\* uninitialised storage.  (A query leaves the parameters alone, so they are
\* those of the state the query ends in.)
Inv_C8_QueryIsCurrent ==
  /\ cam_op.op = "get_projection" => cam_ret = CurrentProjection
  /\ cam_op.op = "get_view" => cam_ret = CurrentView
  /\ cam_op.op = "get_matrix" => ProductOf(CurrentProjection, CurrentView, cam_ret)

\* C8 witness: a query, then a mutation, then get_matrix, which recomputed
\* the view and the product but not the projection, and returned the
\* current product, which is not the product the caches held before the
\* first query.
Wit_C8_QueryIsCurrent ==
  /\ cam_ops = 3
  /\ cam_op.op = "get_matrix"
  /\ cam_recomputed = [projection |-> FALSE, view |-> TRUE, matrix |-> TRUE]
  /\ ProductOf(CurrentProjection, CurrentView, cam_ret)
  /\ cam_ret \notin IndeterminateMatrices

\* the matrices the three queries return when called in this state
AfterUpdate(after) == ProductOf(after.m_projection, after.m_view, after.m_matrix)

\* C9: in every state where the queries have a value, what get_matrix()
\* returns is matrix_mult( what get_projection() returns, what get_view()
\* returns ).
Inv_C9_MatrixIsProduct ==
  (m_view_dirty => Oriented) => AfterUpdate(updated)

\* C9 witness: get_matrix has returned the product of the two cached factors
\* after a change of a projection parameter that followed an earlier query.
Wit_C9_MatrixIsProduct ==
  /\ cam_ops = 3
  /\ cam_op.op = "get_matrix"
  /\ cam_recomputed = [projection |-> TRUE, view |-> FALSE, matrix |-> TRUE]
  /\ ProductOf(m_projection, m_view, cam_ret)
  /\ cam_ret # m_projection

QueryStep == cam_ops' = cam_ops + 1 /\ cam_op'.op \in Queries

\* C10: a query executes the projection block of update() iff
\* m_projection_dirty holds when it is called, the view block iff m_view_dirty,
\* the product block iff m_matrix_dirty; a block that is not executed leaves
\* its cache as it was, one that is executed stores the matrix derived from the
\* parameters; all three flags are false afterwards; and a query that directly
\* follows a query executes no block and changes no cache.
Thm_C10_RecomputeIffDirty ==
  [][QueryStep =>
       /\ cam_recomputed' = [projection |-> m_projection_dirty, view |-> m_view_dirty,
                             matrix |-> m_matrix_dirty]
       /\ m_projection' = IF m_projection_dirty THEN CurrentProjection ELSE m_projection
       /\ m_view' = IF m_view_dirty THEN CurrentView ELSE m_view
       /\ IF m_matrix_dirty THEN ProductOf(m_projection', m_view', m_matrix')
                            ELSE m_matrix' = m_matrix
       /\ ~m_projection_dirty' /\ ~m_view_dirty' /\ ~m_matrix_dirty'
       /\ cam_prev' \in Queries =>
            /\ cam_recomputed' = NothingRecomputed
            /\ UNCHANGED caches]_vars

\* C10 witness: after a change of the field of view, a query (which found
\* flags set) has been followed by a second query, which recomputed nothing.
Wit_C10_RecomputeIffDirty ==
  /\ cam_ops = 3
  /\ m_fov # HalfPi
  /\ cam_prev \in Queries
  /\ cam_op.op \in Queries
  /\ cam_recomputed = NothingRecomputed
  /\ ~m_projection_dirty /\ ~m_view_dirty /\ ~m_matrix_dirty
  /\ m_projection = CurrentProjection

\* a step that is a call of the member function op
CallStep(op) == cam_ops' = cam_ops + 1 /\ cam_op'.op = op

\* the members of the camera
members == <<projectionParams, viewParams, caches, dirtyFlags>>

\* C11: set_fov, set_aspect, set_near_distance, set_far_distance and
\* set_position called with the value the camera already stores change no
\* member: no parameter, no cache, and none of the three dirty flags (none is
\* set, none is cleared).
Thm_C11_EqualValueIsNoOp ==
  [][( \/ CallStep("set_fov") /\ cam_op'.angles[1] = m_fov
       \/ CallStep("set_aspect") /\ cam_op'.values[1] = m_aspect
       \/ CallStep("set_near_distance") /\ cam_op'.values[1] = m_near
       \/ CallStep("set_far_distance") /\ cam_op'.values[1] = m_far
       \/ CallStep("set_position") /\ cam_op'.values = m_position )
     => UNCHANGED members]_vars

\* C11 witness: set_far_distance was called with the stored distance right
\* after a query, and the three flags the query cleared are still clear.
Wit_C11_EqualValueIsNoOp ==
  /\ cam_op.op = "set_far_distance"
  /\ cam_op.values[1] = m_far
  /\ cam_prev \in Queries
  /\ ~m_projection_dirty /\ ~m_view_dirty /\ ~m_matrix_dirty
  /\ m_projection = CurrentProjection

ProjectionSetters == {"set_fov", "set_aspect", "set_near_distance", "set_far_distance"}
ViewSetters == {"set_position", "set_direction", "set_up"}

\* a step that is a call of one of the member functions ops
CallStepOf(ops) == cam_ops' = cam_ops + 1 /\ cam_op'.op \in ops

\* C12: a setter that changes its parameter sets m_matrix_dirty and the flag
\* of its own group and leaves the other group alone: set_fov, set_aspect,
\* set_near_distance and set_far_distance set m_projection_dirty and change
\* neither m_view_dirty nor a view parameter; set_position, set_direction and
\* set_up set m_view_dirty and change neither m_projection_dirty nor a
\* projection parameter.
Thm_C12_OwnGroupOnly ==
  [][ /\ (CallStepOf(ProjectionSetters) /\ projectionParams' # projectionParams) =>
           /\ m_projection_dirty' /\ m_matrix_dirty'
           /\ UNCHANGED <<m_view_dirty, viewParams>>
      /\ (CallStepOf(ViewSetters) /\ viewParams' # viewParams) =>
           /\ m_view_dirty' /\ m_matrix_dirty'
           /\ UNCHANGED <<m_projection_dirty, projectionParams>>
    ]_vars

\* C12 witness: right after a query set_up has stored another vector; the
\* view and the product are marked, the projection is not.
Wit_C12_OwnGroupOnly ==
  /\ cam_op.op = "set_up"
  /\ cam_prev \in Queries
  /\ m_up = Vec(<<0, 0, 1>>)
  /\ ~m_projection_dirty /\ m_view_dirty /\ m_matrix_dirty

\* The second set_fov( x ) of set_fov( x ), query, set_fov( x ): the query
\* left m_fov as the first call stored it, so the same x is the stored m_fov.
SecondSetFov ==
  /\ cam_prev = "set_fov"
  /\ cam_op.op \in Queries
  /\ CallStep("set_fov")
  /\ cam_op'.angles[1] = m_fov

\* after the second set_fov( x ) m_projection_dirty and m_matrix_dirty are
\* false and a query would execute no block of update()
SecondSetFovIsIdle ==
  SecondSetFov =>
    /\ ~m_projection_dirty' /\ ~m_matrix_dirty'
    /\ updated'.recomputed = NothingRecomputed

\* C13 as stated: after set_fov( x ), a query and set_fov( x ) again the flags
\* are false and the next query recomputes nothing, and the first query after
\* the first set_fov( x ) recomputes the projection matrix, whatever x is.
Cex_C13_FirstQueryRecomputes ==
  [][ /\ SecondSetFovIsIdle
      /\ (cam_op.op = "set_fov" /\ CallStepOf(Queries)) => cam_recomputed'.projection
    ]_vars

\* C13, amended: after set_fov( x ), a query and set_fov( x ) again the flags
\* are false and the next query recomputes nothing; the first set_fov( x )
\* leaves m_projection_dirty set if x differs from the stored field of view or
\* the flag was set already (as it is after construction), and the first
\* query after it recomputes the projection matrix exactly if the flag is set.
Thm_C13_SetFovTwice ==
  [][ /\ SecondSetFovIsIdle
      /\ (CallStep("set_fov") /\ (cam_op'.angles[1] # m_fov \/ m_projection_dirty)) =>
           m_projection_dirty'
      /\ (CallStep("set_fov") /\ cam_op'.angles[1] = m_fov) =>
           m_projection_dirty' = m_projection_dirty
      /\ (cam_op.op = "set_fov" /\ CallStepOf(Queries)) =>
           cam_recomputed'.projection = m_projection_dirty
    ]_vars

\* C13 witness: a default camera after set_fov( x ) with another field of
\* view, a query, and set_fov( x ) again: the flags are clear and the cached
\* projection is the one of x.
Wit_C13_SetFovTwice ==
  /\ cam_ops = 3
  /\ cam_op.op = "set_fov"
  /\ cam_op.angles[1] = "2atan(1/2)"
  /\ cam_prev \in Queries
  /\ m_fov = "2atan(1/2)" /\ m_aspect = Num(1) /\ m_near = Num(1) /\ m_far = Num(1000)
  /\ ~m_projection_dirty /\ ~m_view_dirty /\ ~m_matrix_dirty
  /\ m_projection = CurrentProjection

ViewMutators ==
  ViewSetters \cup {"move", "move_relative", "rotate", "rotate_axis_angle",
                    "set_orientation_taitbryan"}

\* a query that follows one call of one of the member functions ops, itself
\* made right after a query (which left the three flags clear)
QueryAfterOneOf(ops) ==
  /\ CallStepOf(Queries)
  /\ cam_prev \in Queries
  /\ cam_op.op \in ops

Thm_C15_RotateAlwaysMarks ==
  [][CallStepOf({"rotate", "rotate_axis_angle"}) =>
       /\ m_view_dirty' /\ m_matrix_dirty'
       /\ UNCHANGED <<m_position, projectionParams, m_projection_dirty>>]_vars

\* C15 witness: right after a query the camera was rotated by the identity
\* quaternion: the cached view is still the view of the parameters, and the
\* view and the product are marked all the same.
Wit_C15_RotateAlwaysMarks ==
  /\ cam_op.op = "rotate"
  /\ cam_op.values = Vec(<<0, 0, 0, 1>>)
  /\ cam_prev \in Queries
  /\ ~m_projection_dirty /\ m_view_dirty /\ m_matrix_dirty
  /\ m_view = CurrentView

\* the direction and up vectors of yaw, pitch and roll applied in this order to
\* the direction ( 0, 0, -1 ) with the up vector ( 0, 1, 0 )
TaitBryanOrientation(angles) ==
  CASE angles = <<"0", "0", "0">> ->
         [direction |-> Vec(<<0, 0, -1>>), up |-> Vec(<<0, 1, 0>>)]
    [] angles = <<"pi", "0", "0">> ->
         [direction |-> Vec(<<0, 0, 1>>), up |-> Vec(<<0, 1, 0>>)]
    [] angles = <<"0", "pi", "pi">> ->
         [direction |-> Vec(<<0, 0, 1>>), up |-> Vec(<<0, 1, 0>>)]

\* C16: the direction and the up vector set_orientation_taitbryan leaves are
\* a function of its three angles alone, so that two cameras with different
\* direction and up before the call have the same ones after it; the call
\* leaves position and projection parameters alone and sets m_view_dirty and
\* m_matrix_dirty.
Thm_C16_TaitBryanIsAbsolute ==
  [][CallStep("set_orientation_taitbryan") =>
       /\ m_direction' = TaitBryanOrientation(cam_op'.angles).direction
       /\ m_up' = TaitBryanOrientation(cam_op'.angles).up
       /\ UNCHANGED <<m_position, projectionParams>>
       /\ m_view_dirty' /\ m_matrix_dirty']_vars

\* C16 witness: the camera constructed looking along ( 3, 0, -4 ) has been
\* given the yaw pi, and has the direction and up the default camera gets.
Wit_C16_TaitBryanIsAbsolute ==
  /\ cam_ops = 1
  /\ cam_op.op = "set_orientation_taitbryan"
  /\ cam_op.angles = <<"pi", "0", "0">>
  /\ m_position = Vec(<<1, 2, 3>>)
  /\ m_direction = Vec(<<0, 0, 1>>)
  /\ m_up = Vec(<<0, 1, 0>>)
  /\ m_view_dirty /\ m_matrix_dirty

\* C17: set_orientation_taitbryan( 0, 0, 0 ) leaves the direction ( 0, 0, -1 )
\* and the up vector ( 0, 1, 0 ), whatever they were before the call.
Thm_C17_TaitBryanZero ==
  [][(CallStep("set_orientation_taitbryan") /\ cam_op'.angles = <<"0", "0", "0">>) =>
       /\ m_direction' = Vec(<<0, 0, -1>>)
       /\ m_up' = Vec(<<0, 1, 0>>)]_vars

\* C17 witness: the camera constructed looking along ( 3, 0, -4 ) has, after a
\* call of set_up, been given the angles ( 0, 0, 0 ) and has the reference
\* frame.
Wit_C17_TaitBryanZero ==
  /\ cam_ops = 2
  /\ cam_prev = "set_up"
  /\ cam_op.op = "set_orientation_taitbryan"
  /\ cam_op.angles = <<"0", "0", "0">>
  /\ m_position = Vec(<<1, 2, 3>>)
  /\ m_direction = Vec(<<0, 0, -1>>)
  /\ m_up = Vec(<<0, 1, 0>>)

\* position + right * offset[0] + up * offset[1] - direction * offset[2]
RelativeTarget(position, right, up, direction, offset) ==
  [i \in 1..3 |->
     Minus(Plus(Plus(position[i], Times(right[i], offset[1])), Times(up[i], offset[2])),
           Times(direction[i], offset[3]))]

\* C18: move_relative( offset ) moves the position by right * offset[0] +
\* up * offset[1] - direction * offset[2] with right = normalize( cross(
\* direction, up ) ); with the default orientation move_relative( ( 1, 0, 0 ) )
\* takes the position ( 0, 0, 0 ) to ( 1, 0, 0 ).
Cex_C18_MoveRelativeRightward ==
  [][CallStep("move_relative") =>
       m_position' = RelativeTarget(m_position,
                                    vector_normalize(vector_cross(m_direction, m_up)),
                                    m_up, m_direction, cam_op'.values)]_vars

\* position + offset, component by component
Translated(position, offset) ==
  [i \in 1..3 |-> Plus(position[i], offset[i])]

\* C19: move( offset ) is set_position( position + offset ): the position
\* becomes the component-wise sum; m_view_dirty and m_matrix_dirty are set if
\* the sum differs from the old position and left as they were if it does
\* not; direction, up, the projection parameters and m_projection_dirty do
\* not change.
Thm_C19_MoveIsSetPosition ==
  [][CallStep("move") =>
       /\ set_position(Translated(m_position, cam_op'.values))
       /\ m_position' = Translated(m_position, cam_op'.values)
       /\ IF m_position' # m_position
          THEN m_view_dirty' /\ m_matrix_dirty'
          ELSE UNCHANGED <<m_view_dirty, m_matrix_dirty>>
       /\ UNCHANGED <<m_direction, m_up, projectionParams, m_projection_dirty>>]_vars

\* C19 witness: move( ( 0, 0, 0 ) ) right after a query has left the three
\* flags clear.
Wit_C19_MoveIsSetPosition ==
  /\ cam_op.op = "move"
  /\ cam_op.values = Vec(<<0, 0, 0>>)
  /\ cam_prev \in Queries
  /\ ~m_projection_dirty /\ ~m_view_dirty /\ ~m_matrix_dirty
  /\ m_view = CurrentView

\* C20: in every state of the camera, after each of the three constructors
\* and after every sequence of calls (set_direction, set_up, rotate and
\* set_orientation_taitbryan with non-zero vectors among them), the stored
\* direction and up vectors have length 1.
Inv_C20_UnitVectors ==
  /\ vector_length(m_direction) = Num(1)
  /\ vector_length(m_up) = Num(1)

\* C20 witness: set_direction( ( 3, 0, -4 ) ), a vector of length 5, has stored
\* ( 3/5, 0, -4/5 ).
Wit_C20_UnitVectors ==
  /\ cam_op.op = "set_direction"
  /\ cam_op.values = Vec(<<3, 0, -4>>)
  /\ m_direction = <<Rat(3, 5), Num(0), Rat(-4, 5)>>
  /\ vector_length(m_direction) = Num(1)
  /\ vector_length(m_up) = Num(1)

\* C21: set_direction( v ) and set_up( v ) compare the normalised v with the
\* stored vector. When they are equal (v a positive multiple of the stored
\* vector) the call changes no member, the dirty flags included; otherwise the
\* normalised v is stored, m_view_dirty and m_matrix_dirty are set and nothing
\* else changes.
Thm_C21_NormalizedCompare ==
  [][ /\ CallStep("set_direction") =>
           IF vector_normalize(cam_op'.values) = m_direction
           THEN UNCHANGED members
           ELSE /\ m_direction' = vector_normalize(cam_op'.values)
                /\ m_view_dirty' /\ m_matrix_dirty'
                /\ UNCHANGED <<m_position, m_up, projectionParams, caches, m_projection_dirty>>
      /\ CallStep("set_up") =>
           IF vector_normalize(cam_op'.values) = m_up
           THEN UNCHANGED members
           ELSE /\ m_up' = vector_normalize(cam_op'.values)
                /\ m_view_dirty' /\ m_matrix_dirty'
                /\ UNCHANGED <<m_position, m_direction, projectionParams, caches, m_projection_dirty>>
    ]_vars

\* C21 witness: right after a query, set_up( ( 0, 3, 0 ) ) on a camera whose
\* up vector is ( 0, 1, 0 ): the argument is not the stored vector, its
\* normalisation is, and the three flags are still clear.
Wit_C21_NormalizedCompare ==
  /\ cam_op.op = "set_up"
  /\ cam_op.values = Vec(<<0, 3, 0>>)
  /\ cam_prev \in Queries
  /\ m_up = Vec(<<0, 1, 0>>)
  /\ m_up # cam_op.values
  /\ ~m_projection_dirty /\ ~m_view_dirty /\ ~m_matrix_dirty

\* C29: when get_projection(), get_view() or get_matrix() returns, the three
\* dirty flags are false, and each matrix whose flag was set has been
\* recomputed, whichever matrix the query returns.
Thm_C29_QueryClearsAll ==
  [][QueryStep =>
       /\ ~m_projection_dirty' /\ ~m_view_dirty' /\ ~m_matrix_dirty'
       /\ m_projection_dirty => cam_recomputed'.projection
       /\ m_view_dirty => cam_recomputed'.view
       /\ m_matrix_dirty => cam_recomputed'.matrix]_vars

\* C29 witness: get_projection() right after a view setter that marked the
\* view has recomputed the view and the product, and no flag is left set.
Wit_C29_QueryClearsAll ==
  /\ cam_op.op = "get_projection"
  /\ cam_prev \in ViewSetters
  /\ cam_recomputed.view /\ cam_recomputed.matrix /\ ~cam_recomputed.projection
  /\ ~m_projection_dirty /\ ~m_view_dirty /\ ~m_matrix_dirty
  /\ m_view = CurrentView

\* C30: in every state of the camera, m_projection_dirty or m_view_dirty set
\* implies m_matrix_dirty set.
Inv_C30_FactorDirtyImpliesMatrixDirty ==
  (m_projection_dirty \/ m_view_dirty) => m_matrix_dirty

\* C30 witness: after a query, a projection setter has marked the projection
\* and the product, and the view is still current.
Wit_C30_FactorDirtyImpliesMatrixDirty ==
  /\ cam_op.op \in ProjectionSetters
  /\ cam_prev \in Queries
  /\ m_projection_dirty /\ ~m_view_dirty /\ m_matrix_dirty

\* C22: renderbuffer::height() returns the height the renderbuffer's storage
\* was allocated with, the the_height argument of the constructor, whatever
\* the width.
Cex_C22_HeightIsAllocatedHeight ==
  (fb_op.op = "height" /\ rb_object[fb_op.rb] # 0) =>
     /\ fb_op.ret = gl_storage[rb_object[fb_op.rb]][2]
     /\ fb_op.ret = m_height[fb_op.rb]

\* C28: a renderbuffer passed to add_renderbuffer is deleted only by
\* remove_renderbuffer or by the framebuffer's destructor, and for each
\* attachment the renderbuffer last attached to it in the GL is the one
\* m_renderbuffers holds for it, also when the attachment held one before.
Cex_C28_FramebufferKeepsLastAttached ==
  /\ \A n \in RenderbufferNames :
       \A k \in 1..Len(rb_deletes[n]) : rb_deletes[n][k] # "add_renderbuffer"
  /\ \A a \in Attachments :
       fb_attached[a] # 0 =>
         /\ a \in DOMAIN m_renderbuffers
         /\ m_renderbuffers[a].name = fb_attached[a]

\* C23: sub_data( offset, n, ptr ) on a buffer whose size is less than
\* offset + n, whatever that size is (0 included), completes with no assert
\* failing and replaces the buffer: afterwards size() is offset + n, name() is
\* not the old name, the old bytes that the upload does not overwrite are
\* kept, and the old name has been deleted once. When the size is at least
\* offset + n, the name and the size are unchanged.
Cex_C23_SubDataReplaces ==
  buf_op.op = "sub_data" =>
    IF buf_op.size < buf_op.offset + buf_op.data_size
    THEN /\ assert_failed = ""
         /\ m_size[buf_op.buffer] = buf_op.offset + buf_op.data_size
         /\ buf_object[buf_op.buffer] # buf_op.name
         /\ \A i \in 1..buf_op.size :
              i <= buf_op.offset =>
                gl_buffer_data[buf_object[buf_op.buffer]][i] = buf_op.data[i]
         /\ gl_buffer_deletes[buf_op.name] = 1
    ELSE /\ assert_failed = ""
         /\ buf_object[buf_op.buffer] = buf_op.name
         /\ m_size[buf_op.buffer] = buf_op.size

\* the live sync objects that hold the fence
SyncHolders(fence) == {self \in Syncs : sync_lifetime[self] = "live" /\ m_sync[self] = fence}

\* C24: over every sequence of insert(), move construction, move assignment
\* and destruction, a fence that insert() created is passed to glDeleteSync
\* exactly once, by the next insert() on the object holding it or by that
\* object's destructor: while one live object holds it it has not been
\* deleted, whether it has expired or not; no two objects hold it; and once no
\* object holds it, it has been deleted once, by insert() or by ~sync().
Inv_C24_FenceDeletedOnce ==
  \A fence \in Fences :
    gl_fence[fence] # "none" =>
      /\ Cardinality(SyncHolders(fence)) <= 1
      /\ SyncHolders(fence) # {} =>
           /\ sync_deletes[fence] = <<>>
           /\ gl_fence[fence] \in {"unsignaled", "signaled"}
      /\ SyncHolders(fence) = {} =>
           /\ Len(sync_deletes[fence]) = 1
           /\ sync_deletes[fence][1] \in {"insert", "~sync"}
           /\ gl_fence[fence] = "deleted"

\* C24 witness: expired() has just returned true for a fence that its object
\* still holds, undeleted; another fence was deleted by an insert() and a
\* third by a destructor.
Wit_C24_FenceDeletedOnce ==
  /\ sync_op.op = "expired" /\ sync_op.ret
  /\ gl_fence[m_sync[sync_op.self]] = "signaled"
  /\ sync_deletes[m_sync[sync_op.self]] = <<>>
  /\ \E fence \in Fences : sync_deletes[fence] = <<"insert">>
  /\ \E fence \in Fences : sync_deletes[fence] = <<"~sync">>

\* a step that is a call of the member function op of a query
QueryCallStep(op) == query_op'.calls = query_op.calls + 1 /\ query_op'.op = op

\* a step in which the innermost run() returns
QueryReturnStep == Len(query_stack') = Len(query_stack) - 1

\* the GL and callable calls that a step adds to those made so far
NewQueryCalls ==
  [i \in 1..(Len(gl_query_calls') - Len(gl_query_calls)) |->
     [call |-> gl_query_calls'[Len(gl_query_calls) + i].call,
      query |-> gl_query_calls'[Len(gl_query_calls) + i].query]]

\* C25: while a query of the object is pending (m_waiting set), begin() calls
\* no glBeginQuery and changes nothing, and run( callable ) calls the callable
\* once with no glBeginQuery before it and no glEndQuery after it; with none
\* pending, run( callable ) calls glBeginQuery, then the callable once, then
\* glEndQuery when the callable has returned.
Thm_C25_PendingSkipsBegin ==
  [][ /\ (QueryCallStep("begin") /\ m_waiting[query_op'.query]) =>
           UNCHANGED <<m_waiting, gl_query, query_stack, gl_query_calls>>
      /\ (QueryCallStep("run") /\ m_waiting[query_op'.query]) =>
           /\ NewQueryCalls = <<[call |-> "callable", query |-> query_op'.query]>>
           /\ query_stack' = Append(query_stack, [query |-> query_op'.query, began |-> FALSE])
           /\ UNCHANGED <<m_waiting, gl_query>>
      /\ (QueryCallStep("run") /\ ~m_waiting[query_op'.query]) =>
           /\ NewQueryCalls = <<[call |-> "glBeginQuery", query |-> query_op'.query],
                                [call |-> "callable", query |-> query_op'.query]>>
           /\ query_stack' = Append(query_stack, [query |-> query_op'.query, began |-> TRUE])
      /\ QueryReturnStep =>
           IF query_stack[Len(query_stack)].began
           THEN NewQueryCalls = <<[call |-> "glEndQuery", query |-> 0]>>
           ELSE UNCHANGED <<gl_query, gl_query_calls>>
    ]_vars

\* C25 witness: run() on a query with none pending and then, before any
\* poll_result, run() on it again: glBeginQuery, the callable, glEndQuery, and
\* then the callable alone.
Wit_C25_PendingSkipsBegin ==
  /\ query_op.op = "run returns"
  /\ query_stack = <<>>
  /\ m_waiting[query_op.query]
  /\ gl_query_calls = <<[call |-> "glBeginQuery", query |-> query_op.query, error |-> FALSE],
                        [call |-> "callable", query |-> query_op.query, error |-> FALSE],
                        [call |-> "glEndQuery", query |-> 0, error |-> FALSE],
                        [call |-> "callable", query |-> query_op.query, error |-> FALSE]>>

\* C26: when queries are started through run() only, no glBeginQuery is
\* called while a query of the Target is active, however the run() calls of
\* the query objects are nested.
Cex_C26_RunNeverOverlaps ==
  ~query_op.manual =>
     \A i \in 1..Len(gl_query_calls) :
       gl_query_calls[i].call = "glBeginQuery" => ~gl_query_calls[i].error

\* C27: poll_result returns true only when a query was begun and ended on the
\* object and the GL reports its result available, and false while the result
\* is not ready; once it has returned true the object is not pending.
Cex_C27_PollResultTrueIsAvailable ==
  query_op.op = "poll_result" =>
    /\ query_op.ret => gl_query[query_op.query] = "available"
    /\ query_op.ret => ~m_waiting[query_op.query]
    /\ gl_query[query_op.query] = "ended" => ~query_op.ret

====
